---------------------------- MODULE Spec2Model ----------------------------
(***************************************************************************)
(* A model of ForgeCore (module runtime) and Starlinker (news backend).    *)
(*                                                                         *)
(* The repository holds four subsystems that share no state, so each has   *)
(* its own specification over the one set of variables:                    *)
(*   SpecKV      forgecore/storage.py       (StorageManager, concurrent)   *)
(*   SpecKVSeq   forgecore/storage.py       (StorageManager, sequential)   *)
(*   SpecLoader  forgecore/loader.py        (ModuleLoader)                 *)
(*   SpecNews    starlinker_news/store.py, alerts.py (signals, alerts)     *)
(*   SpecSched   starlinker_news/scheduler.py, ingest/manager.py           *)
(*   SpecSchedFair  the same, with threads that keep running               *)
(*   SpecQuiet   starlinker_news/alerts.py  (_in_quiet_hours)              *)
(*   SpecIngest  starlinker_news/ingest/manager.py (_run_modules)          *)
(*   SpecBus     event_bus.py                                              *)
(*   SpecReentrant   event_bus.py, handlers that publish on the bus        *)
(*   SpecRelease     event_bus.py, the callbacks subscribe returns         *)
(*   SpecCaps    capabilities.py                                           *)
(*   SpecUnbind  capabilities.py            (bind, unbind)                 *)
(*   SpecConfig  starlinker_news/backend.py, store.py, scheduler.py        *)
(*   SpecHealth  starlinker_news/scheduler.py (describe, HealthStatus)     *)
(*   SpecDigest  starlinker_news/alerts.py  (DigestService)                *)
(*   SpecNotes   starlinker_news/ingest/rsi_patch_notes.py                 *)
(*   SpecRuntime runtime.py, loader.py, capabilities.py                    *)
(* In each specification the variables of the other subsystems keep their  *)
(* initial values.                                                         *)
(***************************************************************************)
EXTENDS Integers, Sequences, FiniteSets, TLC

VARIABLES
    \* ---- StorageManager: one (module, key) destination file ------------
    kvDest,      \* inode the name "<key>.json" points to, 0 when absent
    kvTmp,       \* per client: inode its mkstemp name points to, 0 when none
    kvInodes,    \* inode -> file content, a sequence of written chunks
    kvPc,        \* per client: position inside store / load / delete
    kvArg,       \* per client: the object passed to store
    kvFd,        \* per client: inode of the file handle it holds, 0 when none
    kvResult,    \* per client: what its last load returned
    kvCommitted, \* history: value of the last completed write (store/delete)
    kvLoadMay,   \* history: per client, values a running load may return
    kvDelDuring, \* history: per client, a delete removed the file during its load
    \* ---- ModuleLoader ---------------------------------------------------
    ldManifests,   \* module name -> [provides, requires, on_disable]: the
                   \* module.json files and entry classes in the directory
    ldModules,     \* self.modules: the loaded module names in dict order
    ldEnabled,     \* the modules whose ModuleState.enabled is true
    ldEnableOrder, \* self.enable_order
    ldCall,        \* the last enable_all / disable_all call, [op, raised],
                   \* until another loader call follows it
    ldHookLog,     \* the hooks that call invoked, in order: <<hook, module>>
    ldActive,      \* history: the modules enabled and not disabled since, in
                   \* the order of their enabling
    ldActiveAtCall, \* history: ldActive when the last disable_all began
    ldLoad,      \* history: the last load_all, what each on_load found bound
    \* ---- Starlinker database and AlertsService ---------------------------
    nwSignals,   \* table signals, rows in insertion (id) order
    nwAlerts,    \* table alerts, rows in insertion (id) order
    nwConfig,    \* outputs of the config: which channels are configured
    nwNewErrors, \* the rows table errors got for the candidate dispatched
                 \* last (their channel)
    nwStore,     \* the store_signals call in progress or returned last
    nwRun,       \* the AlertsService.run call in progress or returned last
    nwSnoozed,   \* a snooze is set and has not run out (now < snoozed_until)
    \* ---- SchedulerService, HealthStatus and IngestManager ----------------
    scLock,      \* holder of SchedulerService._lock: a caller, or "free"
    scRunning,   \* HealthStatus.running
    scStopEvent, \* SchedulerService._stop_event is set
    scLoopRef,   \* self._loop / self._scheduler: the loop they refer to, 0: None
    scAlive,     \* the background loop whose thread is in run_forever, 0: none
    scLoops,     \* how many background loops were created so far
    scStopPending, \* loop.stop was handed to the background loop
    scBusy,      \* what the loop thread is in the middle of (it runs nothing
                 \* else meanwhile)
    scCallback,  \* the callback the lock holder handed to the loop, with its
                 \* `done` event
    scJobs,      \* the job ids registered in the APScheduler job store
    scNextRuns,  \* the keys of self._next_runs
    scInstances, \* the job ids with an execution in flight
    scLastPoll,  \* HealthStatus.last_poll and last_poll_reason
    scClock,     \* self._clock(): the latest timestamp handed out
    scLastCall,  \* history: the public call whose locked section ended last
    clPc,        \* per caller thread: its position in the call it is in
    clTodo,      \* per caller thread: the jobs it still has to add
    clPass,      \* per caller thread: the pass its asyncio.run executes, 0: none
    psPasses,    \* triggered_at -> the _run_poll coroutine created with it
    psCalled,    \* history: the triggered_at of the run_poll calls made
    igLocked,    \* IngestManager._lock._locked
    igWaiters,   \* IngestManager._lock._waiters: the passes waiting, in order
    igBound,     \* the event loop the lock got bound to by the first wait
    \* ---- calls of single functions --------------------------------------
    qhCall,      \* an _in_quiet_hours call: its arguments and its result
    \* ---- IngestManager._run_modules --------------------------------------
    inPass,      \* the pass in progress or returned last
    inNewErrors, \* the rows the pass added to table errors
    inPasses,    \* how many passes were started
    \* ---- EventBus ---------------------------------------------------------
    ebSubs,      \* _subs: the handlers of each topic, in subscription order
    ebPub,       \* the publish call in progress or returned last
    ebLock,      \* _lock: the thread inside a with self._lock block, or "-"
    ebInner,     \* the publish call a handler of ebPub made on the same bus
    ebCallbacks, \* history: the release callbacks kept by callers, and if called
    \* ---- CapabilityRegistry -----------------------------------------------
    cpProviders, \* _providers: the provider list of each name
    cpCounter,   \* _counter
    cpCall,      \* the bind or get call made last and its outcome
    \* ---- StarlinkerBackend: settings and scheduler lifecycle --------------
    cfStored,    \* the config persisted in table settings
    cfCached,    \* SchedulerService._config
    cfRunning,   \* HealthStatus.running
    cfStopEvent, \* SchedulerService._stop_event is set
    cfScheduler, \* self._loop and self._scheduler are set
    cfJobs,      \* the ids of the jobs the APScheduler scheduler holds (_jobs)
    cfNextRuns,  \* the keys of _next_runs
    cfInFlight,  \* the ids of the jobs with an execution that has not reported
    cfLastPoll,  \* HealthStatus.last_poll and last_poll_reason
    cfClock,     \* the timestamps self._clock() has handed out
    cfPolls,     \* history: the polls record_poll was called with
    cfCall,      \* the public call made last and whether it raised
    cfSnap,      \* the describe() call in progress or returned last
    \* ---- DigestService ---------------------------------------------------
    dgDigests,   \* table digests: the rows in insertion order
    dgErrors,    \* how many rows table errors got from digest.dispatch
    dgRuns,      \* how many run_digest and preview calls were made
    dgCall,      \* the call made last: arguments, channel outcomes, result
    dgLastDigests, \* HealthStatus.last_digests: type -> triggered_at, 0 no key
    \* ---- RSIPatchNotesIngest ---------------------------------------------
    pnCall,      \* a _normalize_item call: its arguments and the signal it made
    \* ---- ForgeRuntime ----------------------------------------------------
    rtStarted,   \* started
    rtProviders, \* registry._providers: the provider list of each name
    rtCounter,   \* registry._counter
    rtHistory    \* history: the start and stop calls made and whether each raised

kvVars == <<kvDest, kvTmp, kvInodes, kvPc, kvArg, kvFd, kvResult,
            kvCommitted, kvLoadMay, kvDelDuring>>

ldVars == <<ldManifests, ldModules, ldEnabled, ldEnableOrder, ldCall,
            ldHookLog, ldActive, ldActiveAtCall, ldLoad>>

nwVars == <<nwSignals, nwAlerts, nwConfig, nwNewErrors, nwStore, nwRun, nwSnoozed>>

scVars == <<scLock, scRunning, scStopEvent, scLoopRef, scAlive, scLoops,
            scStopPending, scBusy, scCallback, scJobs, scNextRuns, scInstances,
            scLastPoll, scClock, scLastCall, clPc, clTodo, clPass, psPasses,
            psCalled, igLocked, igWaiters, igBound>>

inVars == <<inPass, inNewErrors, inPasses>>

ebVars == <<ebSubs, ebPub, ebLock, ebInner, ebCallbacks>>

cpVars == <<cpProviders, cpCounter, cpCall>>

cfVars == <<cfStored, cfCached, cfRunning, cfStopEvent, cfScheduler, cfJobs,
           cfNextRuns, cfInFlight, cfLastPoll, cfClock, cfPolls, cfCall, cfSnap>>

dgVars == <<dgDigests, dgErrors, dgRuns, dgCall, dgLastDigests>>

pnVars == <<pnCall>>

rtVars == <<rtStarted, rtProviders, rtCounter, rtHistory>>

fnVars == <<qhCall, inVars, ebVars, cpVars,
           cfVars,
           dgVars,
           pnVars,
           rtVars>>

vars == <<kvVars, ldVars, nwVars, scVars, fnVars>>

\* What a step of one component leaves alone: the other components' state.
kvOthers == <<ldVars, nwVars, scVars, fnVars>>

ldOthers == <<kvVars, nwVars, scVars, fnVars>>

nwOthers == <<kvVars, ldVars, scVars, fnVars>>

scOthers == <<kvVars, ldVars, nwVars, fnVars>>

\* What a call of _in_quiet_hours leaves alone.
qhOthers == <<kvVars, ldVars, nwVars, scVars, inVars, ebVars, cpVars,
              cfVars,
              dgVars,
              pnVars,
              rtVars>>

\* What a poll pass leaves alone: all but its own state and table signals.
inOthers == <<kvVars, ldVars, scVars, qhCall, ebVars, cpVars, nwAlerts,
              nwConfig, nwNewErrors, nwStore, nwRun, nwSnoozed,
              cfVars,
              dgVars,
              pnVars,
              rtVars>>

\* What a call of the event bus leaves alone.
ebOthers == <<kvVars, ldVars, nwVars, scVars, qhCall, inVars, cpVars,
              cfVars,
              dgVars,
              pnVars,
              rtVars>>

\* What a call of the capability registry leaves alone.
cpOthers == <<kvVars, ldVars, nwVars, scVars, qhCall, inVars, ebVars,
              cfVars,
              dgVars,
              pnVars,
              rtVars>>

\* What a call of the backend leaves alone.
cfOthers == <<kvVars, ldVars, nwVars, scVars, qhCall, inVars, ebVars, cpVars,
              dgVars,
              pnVars,
              rtVars>>

\* What a call of the digest service leaves alone.
dgOthers == <<kvVars, ldVars, nwVars, scVars, qhCall, inVars, ebVars, cpVars, cfVars,
              pnVars,
              rtVars>>

\* What a call of _normalize_item leaves alone.
pnOthers == <<kvVars, ldVars, nwVars, scVars, qhCall, inVars, ebVars, cpVars, cfVars,
             dgVars,
              rtVars>>

\* What a call of the runtime leaves alone.
rtOthers == <<kvVars, nwVars, scVars, qhCall, inVars, ebVars, cpVars, cfVars, dgVars,
             pnVars>>

-----------------------------------------------------------------------------
(***************************************************************************)
(* StorageManager (forgecore/storage.py)                                   *)
(***************************************************************************)

\* Clients that call the storage manager concurrently (threads).
KVProcs == {"p1", "p2"}

\* How many store calls a behaviour holds (each creates one temporary file).
MaxStores == 2

\* Objects handed to store: the JSON objects {"x": 1}, {"x": 2}, {"y": 1}.
KVValues == {[x |-> 1], [x |-> 2], [y |-> 1]}

\* load's default argument (None).
KVDefault == [none |-> TRUE]

\* Outcomes of load that are not values: the exception it raises.
JSONDecodeError == [raised |-> "JSONDecodeError"]
FileNotFoundError == [raised |-> "FileNotFoundError"]

\* json.dump(obj, fh): the text it writes, as the chunks it hands to fh.write.
JsonDump(obj) ==
    LET key == CHOOSE k \in DOMAIN obj : TRUE IN
    << "{\"" \o key \o "\": ", ToString(obj[key]), "}" >>

\* json.load(fh): the object a complete text denotes; anything else (an empty
\* file, a prefix of a text) does not parse.
JsonLoad(text) ==
    IF \E obj \in KVValues : JsonDump(obj) = text
    THEN CHOOSE obj \in KVValues : JsonDump(obj) = text
    ELSE JSONDecodeError

KVIdle(p) == kvPc[p] = "idle"

\* os.path.exists(path)
KVExists == kvDest # 0

\* store: mkstemp(dir=mdir) creates an empty temporary file and opens it.
StoreMkstemp(p, obj) ==
    /\ KVIdle(p)
    /\ Cardinality(DOMAIN kvInodes) < MaxStores
    /\ LET ino == Cardinality(DOMAIN kvInodes) + 1 IN
        /\ kvInodes' = [i \in DOMAIN kvInodes \cup {ino} |->
                           IF i = ino THEN <<>> ELSE kvInodes[i]]
        /\ kvTmp' = [kvTmp EXCEPT ![p] = ino]
        /\ kvFd' = [kvFd EXCEPT ![p] = ino]
    /\ kvArg' = [kvArg EXCEPT ![p] = obj]
    /\ kvPc' = [kvPc EXCEPT ![p] = "store_write"]
    /\ UNCHANGED <<kvDest, kvResult, kvCommitted, kvLoadMay, kvDelDuring>>
    /\ UNCHANGED kvOthers

\* store: json.dump writes the next chunk of the text into the temporary file.
StoreWrite(p) ==
    /\ kvPc[p] = "store_write"
    /\ Len(kvInodes[kvFd[p]]) < Len(JsonDump(kvArg[p]))
    /\ kvInodes' = [kvInodes EXCEPT ![kvFd[p]] =
                       Append(@, JsonDump(kvArg[p])[Len(@) + 1])]
    /\ UNCHANGED <<kvDest, kvTmp, kvPc, kvArg, kvFd, kvResult,
                   kvCommitted, kvLoadMay, kvDelDuring>>
    /\ UNCHANGED kvOthers

\* The with-block of store is left (file flushed and closed) only after
\* json.dump has written the whole text.
StoreMayReplaceEarly(p) == TRUE

StoreMayReplace(p) == Len(kvInodes[kvFd[p]]) = Len(JsonDump(kvArg[p]))

OsReplaceMissing(dest, tmp) == dest

\* os.replace(tmp_path, path): the destination name now points to the
\* temporary file's inode.
OsReplace(dest, tmp) == tmp

\* store: os.replace(tmp_path, path) renames the temporary file over the
\* destination in one step; store returns.
StoreReplace(p) ==
    /\ kvPc[p] = "store_write"
    /\ StoreMayReplace(p)
    /\ kvDest' = OsReplace(kvDest, kvTmp[p])
    /\ kvTmp' = [kvTmp EXCEPT ![p] = 0]
    /\ kvFd' = [kvFd EXCEPT ![p] = 0]
    /\ kvPc' = [kvPc EXCEPT ![p] = "idle"]
    /\ kvArg' = [kvArg EXCEPT ![p] = KVDefault]
    /\ kvCommitted' = kvArg[p]
    /\ kvLoadMay' = [q \in KVProcs |->
                        IF kvPc[q] \in {"load_open", "load_read"}
                        THEN kvLoadMay[q] \cup {kvArg[p]} ELSE kvLoadMay[q]]
    /\ UNCHANGED <<kvInodes, kvResult, kvDelDuring>>
    /\ UNCHANGED kvOthers

\* load: os.path.exists(path); when the file is absent load returns default.
LoadExists(p) ==
    /\ KVIdle(p)
    /\ kvLoadMay' = [kvLoadMay EXCEPT ![p] = {kvCommitted}]
    /\ kvDelDuring' = [kvDelDuring EXCEPT ![p] = FALSE]
    /\ IF KVExists
       THEN /\ kvPc' = [kvPc EXCEPT ![p] = "load_open"]
            /\ UNCHANGED kvResult
       ELSE /\ kvPc' = [kvPc EXCEPT ![p] = "load_done"]
            /\ kvResult' = [kvResult EXCEPT ![p] = KVDefault]
    /\ UNCHANGED <<kvDest, kvTmp, kvInodes, kvArg, kvFd, kvCommitted>>
    /\ UNCHANGED kvOthers

\* load: open(path, "r") binds the handle to the file the name points to now;
\* it raises when the name is gone.
LoadOpen(p) ==
    /\ kvPc[p] = "load_open"
    /\ IF KVExists
       THEN /\ kvFd' = [kvFd EXCEPT ![p] = kvDest]
            /\ kvPc' = [kvPc EXCEPT ![p] = "load_read"]
            /\ UNCHANGED kvResult
       ELSE /\ kvResult' = [kvResult EXCEPT ![p] = FileNotFoundError]
            /\ kvPc' = [kvPc EXCEPT ![p] = "load_done"]
            /\ UNCHANGED kvFd
    /\ UNCHANGED <<kvDest, kvTmp, kvInodes, kvArg, kvCommitted, kvLoadMay,
                   kvDelDuring>>
    /\ UNCHANGED kvOthers

\* load: json.load(fh) reads the opened file's content and decodes it.
LoadRead(p) ==
    /\ kvPc[p] = "load_read"
    /\ kvResult' = [kvResult EXCEPT ![p] = JsonLoad(kvInodes[kvFd[p]])]
    /\ kvFd' = [kvFd EXCEPT ![p] = 0]
    /\ kvPc' = [kvPc EXCEPT ![p] = "load_done"]
    /\ UNCHANGED <<kvDest, kvTmp, kvInodes, kvArg, kvCommitted, kvLoadMay,
                   kvDelDuring>>
    /\ UNCHANGED kvOthers

\* The caller takes load's result; the client is free for its next call.
LoadReturn(p) ==
    /\ kvPc[p] = "load_done"
    /\ kvPc' = [kvPc EXCEPT ![p] = "idle"]
    /\ kvResult' = [kvResult EXCEPT ![p] = KVDefault]
    /\ kvLoadMay' = [kvLoadMay EXCEPT ![p] = {}]
    /\ kvDelDuring' = [kvDelDuring EXCEPT ![p] = FALSE]
    /\ UNCHANGED <<kvDest, kvTmp, kvInodes, kvArg, kvFd, kvCommitted>>
    /\ UNCHANGED kvOthers

\* delete: os.path.exists(path); nothing to do when the file is absent.
DeleteExists(p) ==
    /\ KVIdle(p)
    /\ IF KVExists
       THEN kvPc' = [kvPc EXCEPT ![p] = "delete_remove"]
       ELSE UNCHANGED kvPc
    /\ UNCHANGED <<kvDest, kvTmp, kvInodes, kvArg, kvFd, kvResult,
                   kvCommitted, kvLoadMay, kvDelDuring>>
    /\ UNCHANGED kvOthers

\* delete: os.remove(path) unlinks the name (it raises when the name is
\* already gone; either way delete ends).
DeleteRemove(p) ==
    /\ kvPc[p] = "delete_remove"
    /\ kvDest' = 0
    /\ kvPc' = [kvPc EXCEPT ![p] = "idle"]
    /\ kvCommitted' = KVDefault
    /\ kvDelDuring' = [q \in KVProcs |->
                          IF kvPc[q] \in {"load_open", "load_read"} /\ KVExists
                          THEN TRUE ELSE kvDelDuring[q]]
    /\ UNCHANGED <<kvTmp, kvInodes, kvArg, kvFd, kvResult, kvLoadMay>>
    /\ UNCHANGED kvOthers

KVStep(p) ==
    \/ \E obj \in KVValues : StoreMkstemp(p, obj)
    \/ StoreWrite(p)
    \/ StoreReplace(p)
    \/ LoadExists(p)
    \/ LoadOpen(p)
    \/ LoadRead(p)
    \/ LoadReturn(p)
    \/ DeleteExists(p)
    \/ DeleteRemove(p)

InitKV ==
    /\ kvDest = 0
    /\ kvTmp = [p \in KVProcs |-> 0]
    /\ kvInodes = << >>
    /\ kvPc = [p \in KVProcs |-> "idle"]
    /\ kvArg = [p \in KVProcs |-> KVDefault]
    /\ kvFd = [p \in KVProcs |-> 0]
    /\ kvResult = [p \in KVProcs |-> KVDefault]
    /\ kvCommitted = KVDefault
    /\ kvLoadMay = [p \in KVProcs |-> {}]
    /\ kvDelDuring = [p \in KVProcs |-> FALSE]

\* Clients run concurrently: any client takes its next step.
NextKV == \E p \in KVProcs : KVStep(p)

\* A sequential history: a call starts only when no other call is running.
NextKVSeq == \E p \in KVProcs : (\A q \in KVProcs \ {p} : KVIdle(q)) /\ KVStep(p)

-----------------------------------------------------------------------------
(***************************************************************************)
(* ModuleLoader (forgecore/loader.py)                                      *)
(***************************************************************************)

\* The module directories, in lexicographic order of their names.
ModuleNames == <<"a", "b", "c">>

Modules == {ModuleNames[i] : i \in DOMAIN ModuleNames}

\* Capability names (cap.split("@", 1)[0]); the loader never reads versions.
Caps == {"x", "y"}

\* The longest enable_order a behaviour builds.
MaxEnableOrder == 3

NoModule == "-"

\* Position of a name in the sorted order of names (list.sort on strings).
NameRank(n) == CHOOSE i \in DOMAIN ModuleNames : ModuleNames[i] = n

SeqRange(s) == {s[i] : i \in DOMAIN s}

SeqForward(s) == s

RECURSIVE SeqReverse(_)
SeqReverse(s) ==
    IF s = <<>> THEN <<>> ELSE Append(SeqReverse(Tail(s)), Head(s))

RECURSIVE SeqFilter(_, _)
SeqFilter(s, keep) ==
    IF s = <<>> THEN <<>>
    ELSE (IF Head(s) \in keep THEN <<Head(s)>> ELSE <<>>) \o SeqFilter(Tail(s), keep)

\* Last position of n in s, 0 when absent.
LastIndex(s, n) ==
    IF n \in SeqRange(s) THEN CHOOSE i \in DOMAIN s :
                                  s[i] = n /\ \A j \in DOMAIN s : s[j] = n => j <= i
    ELSE 0

\* All orders in which os.listdir may return the module directories.
Permutations3 ==
    {p \in [1..Len(ModuleNames) -> Modules] : SeqRange(p) = Modules}

ProviderLastWins(manifests, order, cap) ==
    LET ps == {i \in DOMAIN order : cap \in manifests[order[i]].provides} IN
    IF ps = {} THEN NoModule
    ELSE order[CHOOSE i \in ps : \A j \in ps : j <= i]

ProviderFirstWins(manifests, order, cap) ==
    LET ps == {i \in DOMAIN order : cap \in manifests[order[i]].provides} IN
    IF ps = {} THEN NoModule
    ELSE order[CHOOSE i \in ps : \A j \in ps : i <= j]

\* provides_map[cap_name]: filled while iterating the manifests in dict
\* order, so a later provider of the same name overwrites an earlier one.
ProvidesMap(manifests, order, cap) == ProviderLastWins(manifests, order, cap)

\* edges[name]: the provider of each requirement, one list entry per
\* requirement (not per provider); a module is never its own dependency.
\* The list is kept as provider -> number of entries.
Edges(manifests, order) ==
    [n \in SeqRange(order) |->
        [m \in SeqRange(order) |->
            Cardinality({cap \in manifests[n].requires :
                            ProvidesMap(manifests, order, cap) = m /\ m # n})]]

CircularDependency == <<"circular dependency">>

\* One round of Kahn's loop: the candidates are the nodes with an empty list
\* (entries that name a node taken earlier count as well); the least by name
\* is taken and ONE entry of it is removed (list.remove) from every other
\* list.
RECURSIVE Kahn(_, _, _)
Kahn(tempEdges, left, result) ==
    IF left = {} THEN result
    ELSE LET candidates ==
                 {n \in left : \A m \in DOMAIN tempEdges[n] : tempEdges[n][m] = 0}
         IN
         IF candidates = {} THEN CircularDependency
         ELSE LET n == CHOOSE c \in candidates :
                          \A d \in candidates : NameRank(c) <= NameRank(d)
                  next == [k \in DOMAIN tempEdges |->
                             [m \in DOMAIN tempEdges[k] |->
                                 IF m = n /\ tempEdges[k][m] > 0
                                 THEN tempEdges[k][m] - 1 ELSE tempEdges[k][m]]]
              IN Kahn(next, left \ {n}, Append(result, n))

\* ModuleLoader._dependency_order(manifests), manifests iterated in `order`.
DependencyOrderOf(manifests, order) ==
    Kahn(Edges(manifests, order), SeqRange(order), <<>>)

\* The kinds of module a directory holds: a provider of both capabilities
\* (examples/basic_module), a module that provides and requires x, a link
\* that requires x and provides y, and a consumer of both whose entry class
\* defines no on_disable (examples/rpg_inventory).
ManifestKinds ==
    { [provides |-> {"x", "y"}, requires |-> {}, on_disable |-> TRUE],
      [provides |-> {"x"}, requires |-> {"x"}, on_disable |-> TRUE],
      [provides |-> {"y"}, requires |-> {"x"}, on_disable |-> TRUE],
      [provides |-> {}, requires |-> {"x", "y"}, on_disable |-> FALSE] }

\* _dependency_order for every directory and every dict order of its modules.
\* (The comparison makes TLC tabulate the function once instead of running
\* the loop at every application.)
DependencyTable ==
    LET table == [manifests \in [Modules -> ManifestKinds] |->
                    [order \in Permutations3 |->
                        DependencyOrderOf(manifests, order)]]
    IN IF table = table THEN table ELSE table

\* _dependency_order of the directory at hand.
DependencyOrder(order) == DependencyTable[ldManifests][order]

NoCall == [op |-> "-", raised |-> FALSE]

\* No load_all so far: registered is provides_map as the ordering of the
\* load_all just made built it, hooks its on_load calls in order, each with
\* the bindings <<capability, module>> the registry held when it ran, bound
\* the bindings the registry holds.
NoLoad ==
    [registered |-> [cap \in Caps |-> NoModule], hooks |-> <<>>, bound |-> {}]

\* The modules in the order discover() listed them.
AsListed(listing) == listing

\* order = self._dependency_order(manifests); for name in order
LoadSequence(listing) == DependencyOrder(listing)

\* What the binds of the modules loaded so far added: registry.bind(cap,
\* instance) follows the module's on_load and the store of its state.
BoundBy(order, count) ==
    {<<cap, order[j]>> : cap \in Caps, j \in 1..count} \cap
        {b \in Caps \X Modules : b[1] \in ldManifests[b[2]].provides}

\* The on_load calls of a load_all over `order`.
LoadHooks(order) ==
    [i \in DOMAIN order |->
        [name |-> order[i], bound |-> ldLoad.bound \cup BoundBy(order, i - 1)]]

\* load_all: discover() lists the directory in some order; the modules are
\* ordered, instantiated and stored in self.modules (a key that is already
\* there keeps its place); every ModuleState starts with enabled = False.
LoadAll(listing) ==
    /\ ldActiveAtCall' = <<>>
    /\ LET order == LoadSequence(listing)
           registered == [cap \in Caps |-> ProvidesMap(ldManifests, listing, cap)]
       IN
       IF order = CircularDependency
       THEN /\ UNCHANGED <<ldModules, ldEnabled, ldActive>>
            /\ ldLoad' = [ldLoad EXCEPT !.registered = registered,
                                        !.hooks = <<>>]
       ELSE /\ ldModules' = ldModules \o
                   SeqFilter(order, Modules \ SeqRange(ldModules))
            /\ ldEnabled' = {}
            /\ ldActive' = <<>>
            /\ ldLoad' = [registered |-> registered,
                          hooks |-> LoadHooks(order),
                          bound |-> ldLoad.bound \cup BoundBy(order, Len(order))]
    /\ ldCall' = NoCall
    /\ ldHookLog' = <<>>
    /\ UNCHANGED <<ldManifests, ldEnableOrder>>
    /\ UNCHANGED ldOthers

\* The effect of enable_module(n) on <<enabled, enable_order, hook log>>, and
\* whether on_enable raised (then nothing is recorded).
EnableOne(st, n, bad) ==
    IF n \in st.enabled THEN st
    ELSE IF n = bad
         THEN [st EXCEPT !.log = Append(@, <<"on_enable", n>>), !.raised = TRUE]
         ELSE [st EXCEPT !.log = Append(@, <<"on_enable", n>>),
                         !.enabled = @ \cup {n},
                         !.order = Append(@, n),
                         !.active = Append(@, n)]

RECURSIVE EnableEach(_, _, _)
EnableEach(st, names, bad) ==
    IF names = <<>> \/ st.raised THEN st
    ELSE EnableEach(EnableOne(st, Head(names), bad), Tail(names), bad)

LoaderState ==
    [enabled |-> ldEnabled, order |-> ldEnableOrder, log |-> <<>>,
     active |-> ldActive, raised |-> FALSE]

LoaderUpdate(op, st) ==
    /\ ldEnabled' = st.enabled
    /\ ldEnableOrder' = st.order
    /\ ldActive' = st.active
    /\ IF op \in {"enable_all", "disable_all"}
       THEN /\ ldCall' = [op |-> op, raised |-> st.raised]
            /\ ldHookLog' = st.log
       ELSE /\ ldCall' = NoCall
            /\ ldHookLog' = <<>>
    /\ ldActiveAtCall' = IF op = "disable_all" THEN ldActive ELSE <<>>
    /\ ldLoad' = [NoLoad EXCEPT !.bound = ldLoad.bound]
    /\ UNCHANGED <<ldManifests, ldModules>>
    /\ UNCHANGED ldOthers

\* enable_all: the dependency order of self.modules, each enabled in turn;
\* `bad` is the module whose on_enable raises in this call (NoModule: none).
EnableAll(bad) ==
    /\ ldModules # <<>>
    /\ Len(ldEnableOrder) + Len(ldModules) <= MaxEnableOrder + Cardinality(ldEnabled)
    /\ LET order == DependencyOrder(ldModules) IN
       IF order = CircularDependency
       THEN LoaderUpdate("enable_all", [LoaderState EXCEPT !.raised = TRUE])
       ELSE LoaderUpdate("enable_all", EnableEach(LoaderState, order, bad))

\* enable_module(name) of a loaded module; `raises`: its on_enable raises.
EnableModule(n, raises) ==
    /\ n \in SeqRange(ldModules)
    /\ Len(ldEnableOrder) < MaxEnableOrder
    /\ LoaderUpdate("enable_module",
                    EnableOne(LoaderState, n, IF raises THEN n ELSE NoModule))

\* The effect of disable_module(n): on_disable runs only for an enabled module
\* that defines it, and only then is enabled cleared.
DisableOne(st, n, bad) ==
    IF n \in SeqRange(ldModules) /\ n \in st.enabled /\ ldManifests[n].on_disable
    THEN IF n = bad
         THEN [st EXCEPT !.log = Append(@, <<"on_disable", n>>), !.raised = TRUE]
         ELSE [st EXCEPT !.log = Append(@, <<"on_disable", n>>),
                         !.enabled = @ \ {n},
                         !.active = SeqFilter(@, Modules \ {n})]
    ELSE st

RECURSIVE DisableEach(_, _, _)
DisableEach(st, names, bad) ==
    IF names = <<>> \/ st.raised THEN st
    ELSE DisableEach(DisableOne(st, Head(names), bad), Tail(names), bad)

\* disable_module(name); `raises`: its on_disable raises.
DisableModule(n, raises) ==
    /\ n \in SeqRange(ldModules)
    /\ LoaderUpdate("disable_module",
                    DisableOne(LoaderState, n, IF raises THEN n ELSE NoModule))

\* disable_all: disable_module over reversed(enable_order), then
\* enable_order.clear(); an exception of a hook leaves the loop and the clear.
DisableAll(bad) ==
    /\ ldModules # <<>>
    /\ LET st == DisableEach(LoaderState, SeqReverse(ldEnableOrder), bad) IN
       LoaderUpdate("disable_all",
                    IF st.raised THEN st ELSE [st EXCEPT !.order = <<>>])

\* A directory of modules, each of one of the kinds.
InitLoader ==
    /\ ldManifests \in [Modules -> ManifestKinds]
    /\ ldModules = <<>>
    /\ ldEnabled = {}
    /\ ldEnableOrder = <<>>
    /\ ldCall = [op |-> "-", raised |-> FALSE]
    /\ ldHookLog = <<>>
    /\ ldActive = <<>>
    /\ ldActiveAtCall = <<>>
    /\ ldLoad = NoLoad

\* The loader of a specification that is about another subsystem.
IdleLoader ==
    /\ ldManifests = [n \in Modules |->
                         [provides |-> {}, requires |-> {}, on_disable |-> FALSE]]
    /\ ldModules = <<>>
    /\ ldEnabled = {}
    /\ ldEnableOrder = <<>>
    /\ ldCall = [op |-> "-", raised |-> FALSE]
    /\ ldHookLog = <<>>
    /\ ldActive = <<>>
    /\ ldActiveAtCall = <<>>
    /\ ldLoad = NoLoad

NextLoader ==
    \/ \E listing \in Permutations3 : LoadAll(listing)
    \/ \E bad \in Modules \cup {NoModule} : EnableAll(bad)
    \/ \E n \in Modules, raises \in BOOLEAN : EnableModule(n, raises)
    \/ \E n \in Modules, raises \in BOOLEAN : DisableModule(n, raises)
    \/ \E bad \in Modules \cup {NoModule} : DisableAll(bad)
-----------------------------------------------------------------------------
(***************************************************************************)
(* StarlinkerDatabase (starlinker_news/store.py) and AlertsService         *)
(* (starlinker_news/alerts.py)                                             *)
(***************************************************************************)

\* URLs are sequences of characters; two of them differ only in case.
NewsUrls == {<<"/", "A">>, <<"/", "a">>, <<"/", "b">>}

NewsSources == {"rsi"}

\* AlertsService(min_priority = 60)
MinPriority == 60

\* The longest batch a store_signals call is given.
MaxBatch == 2

\* The signals an ingest module hands over: no tags and a title without
\* keywords, a priority below or above the threshold, one publication time.
NormalizedSignals ==
    [source : NewsSources, url : NewsUrls, priority : {10, 90},
     published_at : {1}]

\* str.lower()
LowerChar(c) ==
    CASE c = "A" -> "a" [] c = "C" -> "c" [] c = "E" -> "e" [] c = "H" -> "h"
      [] c = "I" -> "i" [] c = "L" -> "l" [] c = "P" -> "p" [] c = "T" -> "t"
      [] c = "U" -> "u" [] c = "V" -> "v" [] OTHER -> c

Lower(str) == [i \in DOMAIN str |-> LowerChar(str[i])]

\* _build_dedup_key: f"{signal.source}:{signal.url.lower()}"
BuildDedupKey(signal) == <<signal.source, ":">> \o Lower(signal.url)

\* _score_signal of a signal without tags and title keywords.
ScoreSignal(signal) == signal.priority

IndexMissing(rows, row) == FALSE

\* The unique index idx_signals_url: an INSERT of a URL that a row already
\* holds (compared byte by byte) raises sqlite3.IntegrityError.
IntegrityError(rows, row) == \E i \in DOMAIN rows : rows[i].url = row.url

\* No store_signals call so far, or another call since: pc is where the call
\* stands, n the rows of its batch handled so far, urls their URLs, inserted
\* its counter.
NoStore == [pc |-> "idle", n |-> 0, urls |-> {}, inserted |-> 0]

\* No AlertsService.run call so far, or another call since: candidates are
\* the candidates still to dispatch, alerts is delivered_total. History of
\* the call: the local time of its triggered_at, whether a snooze was set,
\* how many candidates it found, how many sends it attempted, what the
\* channels did with the candidate dispatched last.
NoRun == [pc |-> "idle", candidates |-> <<>>, alerts |-> 0, suppressed |-> FALSE,
          now |-> [hour |-> 0, minute |-> 0], snoozed |-> FALSE, found |-> 0,
          posts |-> 0, outcome |-> [discord |-> TRUE, email |-> TRUE]]

\* The calls of this component run one after another.
NoCallRunning == nwStore.pc # "insert" /\ nwRun.pc # "dispatch"

\* store_signals(signals) begins: the connection is opened.
StoreBegin ==
    /\ NoCallRunning
    /\ nwStore' = [NoStore EXCEPT !.pc = "insert"]
    /\ nwRun' = NoRun
    /\ nwNewErrors' = <<>>
    /\ UNCHANGED <<nwSignals, nwAlerts, nwConfig, nwSnoozed>>
    /\ UNCHANGED nwOthers

\* store_signals' loop, the next row of the batch: it is inserted and counted
\* unless the index rejects it.
StoreInsert(row) ==
    /\ nwStore.pc = "insert"
    /\ nwStore.n < MaxBatch
    /\ IF IntegrityError(nwSignals, row)
       THEN /\ UNCHANGED nwSignals
            /\ nwStore' = [nwStore EXCEPT !.n = @ + 1, !.urls = @ \cup {row.url}]
       ELSE /\ nwSignals' = Append(nwSignals, row)
            /\ nwStore' = [nwStore EXCEPT !.n = @ + 1, !.urls = @ \cup {row.url},
                                          !.inserted = @ + 1]
    /\ UNCHANGED <<nwAlerts, nwConfig, nwNewErrors, nwRun, nwSnoozed>>
    /\ UNCHANGED nwOthers

\* store_signals: conn.commit() and return inserted (an empty batch returns
\* 0 at once).
StoreCommit ==
    /\ nwStore.pc = "insert"
    /\ nwStore' = [nwStore EXCEPT !.pc = "done"]
    /\ UNCHANGED <<nwSignals, nwAlerts, nwConfig, nwNewErrors, nwRun, nwSnoozed>>
    /\ UNCHANGED nwOthers

\* alert_exists(dedup_key)
AlertExists(alerts, key) == \E i \in DOMAIN alerts : alerts[i].dedup_key = key

\* list.sort(key, reverse = True) and ORDER BY ... DESC: the greatest key
\* first, rows of equal key in the order they had. keys[i] is the key of
\* rows[i].
RECURSIVE SortDesc(_, _)
SortDesc(rows, keys) ==
    IF rows = <<>> THEN <<>>
    ELSE LET i == CHOOSE k \in DOMAIN rows :
                      /\ \A j \in DOMAIN rows : keys[j] <= keys[k]
                      /\ \A j \in 1..(k - 1) : keys[j] < keys[k]
             Without(seq) == SubSeq(seq, 1, i - 1) \o SubSeq(seq, i + 1, Len(seq))
         IN <<rows[i]>> \o SortDesc(Without(rows), Without(keys))

\* (priority, published_at), compared as a pair.
CandidateKey(row) == 10 * ScoreSignal(row) + row.published_at

\* fetch_signals(since): every stored signal is inside the window.
FetchSignals ==
    SortDesc(nwSignals, [i \in DOMAIN nwSignals |-> nwSignals[i].published_at])

RECURSIVE SelectCandidates(_)
SelectCandidates(rows) ==
    IF rows = <<>> THEN <<>>
    ELSE (IF ScoreSignal(Head(rows)) >= MinPriority
             /\ ~AlertExists(nwAlerts, BuildDedupKey(Head(rows)))
          THEN <<Head(rows)>> ELSE <<>>) \o SelectCandidates(Tail(rows))

\* _collect_candidates: every signal is tested against the alerts table
\* before any alert of this run is recorded.
CollectCandidates ==
    LET selected == SelectCandidates(FetchSignals) IN
    SortDesc(selected, [i \in DOMAIN selected |-> CandidateKey(selected[i])])

\* What the channels do with a message (whether the send returns or
\* raises); a channel that is not configured is given no message.
ChannelOutcomes ==
    {o \in [discord : BOOLEAN, email : BOOLEAN] :
        /\ ~nwConfig.discord_webhook => o.discord
        /\ ~nwConfig.email_to => o.email}

\* The webhook is posted to when one is configured.
TriedDiscord(outcome) == nwConfig.discord_webhook

\* An email send that is left out once the webhook has raised.
TriedEmailAfterSuccess(outcome) ==
    nwConfig.email_to /\ (nwConfig.discord_webhook => outcome.discord)

\* The mailer is called when a recipient is configured: the exception of
\* the webhook was caught before.
TriedEmail(outcome) == nwConfig.email_to

\* The channels that delivered one candidate, in the order they are tried.
DeliveredChannels(outcome) ==
    (IF TriedDiscord(outcome) /\ outcome.discord THEN <<"discord">> ELSE <<>>)
    \o (IF TriedEmail(outcome) /\ outcome.email THEN <<"email">> ELSE <<>>)

\* The error rows one candidate leaves: one per channel tried that raised,
\* tagged with the channel.
DispatchErrors(outcome) ==
    (IF TriedDiscord(outcome) /\ ~outcome.discord THEN <<"discord">> ELSE <<>>)
    \o (IF TriedEmail(outcome) /\ ~outcome.email THEN <<"email">> ELSE <<>>)

\* The sends one round of the loop attempts.
Attempts(outcome) == (IF TriedDiscord(outcome) THEN 1 ELSE 0)
                     + (IF TriedEmail(outcome) THEN 1 ELSE 0)

\* "HH:MM" texts are sequences of characters.
Text(h1, h2, m1, m2) == <<ToString(h1), ToString(h2), ":", ToString(m1), ToString(m2)>>

\* int(text) of a text of decimal digits.
RECURSIVE IntOf(_)
IntOf(chars) ==
    IF chars = <<>> THEN 0
    ELSE 10 * IntOf(SubSeq(chars, 1, Len(chars) - 1))
         + (CHOOSE d \in 0..9 : ToString(d) = chars[Len(chars)])

\* _parse_time: value.split(":", 1), then time(hour = int(..), minute = int(..)).
ParseTime(value) ==
    LET colon == CHOOSE i \in DOMAIN value :
                     value[i] = ":" /\ \A j \in 1..(i - 1) : value[j] # ":"
    IN [hour |-> IntOf(SubSeq(value, 1, colon - 1)),
        minute |-> IntOf(SubSeq(value, colon + 1, Len(value)))]

\* A comparison that looks at the hours only.
TimeLessByHour(a, b) == a.hour < b.hour

\* datetime.time values compare by hour, then by minute.
TimeLess(a, b) == a.hour < b.hour \/ (a.hour = b.hour /\ a.minute < b.minute)

TimeLessEq(a, b) == a = b \/ TimeLess(a, b)

\* The window test of _in_quiet_hours with the wrap over midnight left out.
QuietWindowNoWrap(start, end, current) ==
    TimeLessEq(start, current) /\ TimeLess(current, end)

\* _in_quiet_hours, the window test: start <= current < end when
\* start <= end, otherwise current >= start or current < end.
QuietWindow(start, end, current) ==
    IF TimeLessEq(start, end)
    THEN TimeLessEq(start, current) /\ TimeLess(current, end)
    ELSE TimeLessEq(start, current) \/ TimeLess(current, end)

\* _in_quiet_hours(config, moment): `current` is the local time of the moment
\* in the timezone of the config. A config always holds two quiet_hours
\* entries (validate_quiet_hours).
InQuietHours(quiet_hours, current) ==
    IF quiet_hours = <<>> \/ Len(quiet_hours) # 2 THEN FALSE
    ELSE QuietWindow(ParseTime(quiet_hours[1]), ParseTime(quiet_hours[2]), current)

\* A local time of day.
Time(h, m) == [hour |-> h, minute |-> m]

\* POST /alerts/snooze {minutes}: snoozed_until is set to now + minutes.
SnoozeAlerts ==
    /\ NoCallRunning
    /\ ~nwSnoozed
    /\ nwSnoozed' = TRUE
    /\ UNCHANGED <<nwSignals, nwAlerts, nwConfig, nwNewErrors, nwStore, nwRun>>
    /\ UNCHANGED nwOthers

\* Time passes snoozed_until.
SnoozeEnds ==
    /\ NoCallRunning
    /\ nwSnoozed
    /\ nwSnoozed' = FALSE
    /\ UNCHANGED <<nwSignals, nwAlerts, nwConfig, nwNewErrors, nwStore, nwRun>>
    /\ UNCHANGED nwOthers

\* The quiet_hours of the configs: the default, and a window that covers
\* the day.
QuietHoursConfigs ==
    {<<Text(2, 3, 0, 0), Text(0, 7, 0, 0)>>, <<Text(0, 0, 0, 0), Text(2, 3, 5, 9)>>}

\* The local times of the triggered_at of the runs.
RunTimes == {Time(23, 30), Time(8, 0)}

\* AlertsService.run(config, triggered_at) up to the loop: the candidates are
\* collected; `now` is the local time of triggered_at.
RunCollect(now) ==
    /\ NoCallRunning
    /\ LET candidates == CollectCandidates
           call == [NoRun EXCEPT !.now = now, !.snoozed = nwSnoozed,
                                 !.found = Len(candidates)]
       IN IF candidates = <<>>
          THEN nwRun' = [call EXCEPT !.pc = "done"]
          ELSE IF InQuietHours(nwConfig.quiet_hours, now)
               THEN nwRun' = [call EXCEPT !.pc = "done", !.suppressed = TRUE]
               ELSE nwRun' = [call EXCEPT !.pc = "dispatch",
                                          !.candidates = candidates]
    /\ nwStore' = NoStore
    /\ nwNewErrors' = <<>>
    /\ UNCHANGED <<nwSignals, nwAlerts, nwConfig, nwSnoozed>>
    /\ UNCHANGED nwOthers

\* One round of the loop of _run_locked: the next candidate is sent to the
\* configured channels (`outcome`: which of them accept it), an error row is
\* written for each that raised, and record_alert is called when some channel
\* delivered.
RunDispatch(outcome) ==
    /\ nwRun.pc = "dispatch"
    /\ nwRun.candidates # <<>>
    /\ LET c == Head(nwRun.candidates)
           delivered == DeliveredChannels(outcome)
       IN /\ nwNewErrors' = DispatchErrors(outcome)
          /\ IF delivered = <<>>
             THEN /\ UNCHANGED nwAlerts
                  /\ nwRun' = [nwRun EXCEPT !.candidates = Tail(@),
                                            !.posts = @ + Attempts(outcome),
                                            !.outcome = outcome]
             ELSE /\ nwAlerts' = Append(nwAlerts,
                                     [url |-> c.url,
                                      delivered_channels |-> delivered,
                                      dedup_key |-> BuildDedupKey(c)])
                  /\ nwRun' = [nwRun EXCEPT !.candidates = Tail(@),
                                            !.alerts = @ + 1,
                                            !.posts = @ + Attempts(outcome),
                                            !.outcome = outcome]
    /\ UNCHANGED <<nwSignals, nwConfig, nwStore, nwSnoozed>>
    /\ UNCHANGED nwOthers

\* The loop is over: run returns {"alerts": delivered_total, "suppressed": False}.
RunReturn ==
    /\ nwRun.pc = "dispatch"
    /\ nwRun.candidates = <<>>
    /\ nwRun' = [nwRun EXCEPT !.pc = "done"]
    /\ UNCHANGED <<nwSignals, nwAlerts, nwConfig, nwNewErrors, nwStore, nwSnoozed>>
    /\ UNCHANGED nwOthers

\* An initialized database and a config with some outputs.
InitNews ==
    /\ nwSignals = <<>>
    /\ nwAlerts = <<>>
    /\ nwConfig \in [discord_webhook : BOOLEAN, email_to : BOOLEAN,
                    quiet_hours : QuietHoursConfigs]
    /\ nwNewErrors = <<>>
    /\ nwStore = NoStore
    /\ nwRun = NoRun
    /\ nwSnoozed = FALSE

\* The database of a specification that is about another component.
IdleNews ==
    /\ nwSignals = <<>>
    /\ nwAlerts = <<>>
    /\ nwConfig = [discord_webhook |-> FALSE, email_to |-> FALSE,
                   quiet_hours |-> <<Text(2, 3, 0, 0), Text(0, 7, 0, 0)>>]
    /\ nwNewErrors = <<>>
    /\ nwStore = NoStore
    /\ nwRun = NoRun
    /\ nwSnoozed = FALSE

NextNews ==
    \/ StoreBegin
    \/ \E row \in NormalizedSignals : StoreInsert(row)
    \/ StoreCommit
    \/ \E now \in RunTimes : RunCollect(now)
    \/ \E outcome \in ChannelOutcomes : RunDispatch(outcome)
    \/ RunReturn
    \/ SnoozeAlerts
    \/ SnoozeEnds

-----------------------------------------------------------------------------
(***************************************************************************)
(* SchedulerService (starlinker_news/scheduler.py) with the gate of        *)
(* IngestManager.run_poll (starlinker_news/ingest/manager.py)              *)
(*                                                                         *)
(* Threads: the callers of the public methods, and the background thread   *)
(* that runs the event loop with the APScheduler scheduler. A caller is a  *)
(* plain thread (no event loop of its own is running in it). A new         *)
(* background loop is created only after the thread of the previous one    *)
(* has ended. The background loop runs one callback or coroutine step at a *)
(* time and picks any that is ready (asyncio takes them in the order they  *)
(* became ready, which is one of the orders allowed here). The config has  *)
(* both poll intervals and no digest time; trigger_digest goes the way of  *)
(* trigger_poll through _submit_coroutine and has no action of its own.    *)
(***************************************************************************)

Callers == {"c1", "c2"}

\* The interval jobs in the order _schedule_from_config_locked adds them
\* (a config whose priority_poll_minutes and standard_poll_hours are > 0 and
\* whose digest times are empty).
PollJobs == <<"priority_poll", "standard_poll">>

\* The timestamps self._clock() hands out in a behaviour.
MaxClock == 2

\* The background loops a behaviour creates (start() calls that take effect).
MaxLoops == 1

JobReason(j) == IF j = "priority_poll" THEN "schedule:priority"
                ELSE "schedule:standard"

\* Event loops: the loop of the background thread created by the n-th
\* effective start(), or the loop asyncio.run creates for the pass n.
NoLoop == [kind |-> "none", n |-> 0]

SchedLoop(n) == [kind |-> "sched", n |-> n]

RunLoop(n) == [kind |-> "run", n |-> n]

\* A _run_poll coroutine: where it stands, its reason, the job it belongs to
\* ("-" for a manual trigger) and the loop it runs on.
NoPass == [pc |-> "none", reason |-> "-", job |-> "-", loop |-> NoLoop]

DonePass == [pc |-> "done", reason |-> "-", job |-> "-", loop |-> NoLoop]

NotBusy == [in |-> "none", id |-> 0, job |-> "-"]

NoCallback == [kind |-> "none", job |-> "-", done |-> TRUE]

NoPoll == [at |-> 0, reason |-> "-"]

scLoopVars == <<scLoopRef, scAlive, scLoops, scStopPending>>

scJobVars == <<scJobs, scNextRuns, scInstances>>

clVars == <<clPc, clTodo, clPass>>

igVars == <<igLocked, igWaiters, igBound>>

\* _cancel_jobs_locked: what self._next_runs.clear() leaves of next_runs.
KeptNextRuns == scNextRuns

CancelledNextRuns == {}

\* loop.call_soon_threadsafe(callback) with a fresh `done` event.
Post(kind, job) == [kind |-> kind, job |-> job, done |-> FALSE]

\* start(): under the lock; a running scheduler returns at once, otherwise
\* the flags are set, the background loop and its scheduler are created
\* (_start_loop_locked waits until the thread is ready) and the jobs of the
\* config are to be added.
Start(c) ==
    /\ clPc[c] = "idle"
    /\ scLock = "free"
    /\ IF scRunning
       THEN /\ scLastCall' = [op |-> "start", effect |-> FALSE]
            /\ UNCHANGED <<scLock, scRunning, scStopEvent, scLoopVars, scJobs,
                           clVars>>
       ELSE /\ scLoops < MaxLoops
            /\ scAlive = 0
            /\ scLock' = c
            /\ scStopEvent' = FALSE
            /\ scRunning' = TRUE
            /\ scLoops' = scLoops + 1
            /\ scLoopRef' = scLoops + 1
            /\ scAlive' = scLoops + 1
            /\ scJobs' = {}
            /\ clPc' = [clPc EXCEPT ![c] = "add_job"]
            /\ clTodo' = [clTodo EXCEPT ![c] = PollJobs]
            /\ UNCHANGED <<scStopPending, clPass, scLastCall>>
    /\ UNCHANGED <<scBusy, scCallback, scNextRuns, scInstances, scLastPoll,
                   scClock, psPasses, psCalled, igVars>>
    /\ UNCHANGED scOthers

\* _add_job: the _schedule callback of the next job is handed to the loop.
AddJob(c) ==
    /\ clPc[c] = "add_job"
    /\ clTodo[c] # <<>>
    /\ scCallback' = Post("schedule", Head(clTodo[c]))
    /\ clTodo' = [clTodo EXCEPT ![c] = Tail(@)]
    /\ clPc' = [clPc EXCEPT ![c] = "add_wait"]
    /\ UNCHANGED <<scLock, scRunning, scStopEvent, scLoopVars, scBusy, scJobVars,
                   scLastPoll, scClock, scLastCall, clPass, psPasses, psCalled,
                   igVars>>
    /\ UNCHANGED scOthers

\* _add_job: done.wait() returns; after the last job start() / refresh_config()
\* leaves the lock and returns.
AddWait(c) ==
    /\ clPc[c] = "add_wait"
    /\ scCallback.done
    /\ IF clTodo[c] # <<>>
       THEN /\ clPc' = [clPc EXCEPT ![c] = "add_job"]
            /\ UNCHANGED <<scLock, scLastCall>>
       ELSE /\ clPc' = [clPc EXCEPT ![c] = "idle"]
            /\ scLock' = "free"
            /\ scLastCall' = [op |-> "schedule", effect |-> TRUE]
    /\ UNCHANGED <<scRunning, scStopEvent, scLoopVars, scBusy, scCallback,
                   scJobVars, scLastPoll, scClock, clTodo, clPass, psPasses,
                   psCalled, igVars>>
    /\ UNCHANGED scOthers

\* stop(): under the lock; a scheduler that is not running returns at once,
\* otherwise the stop event is set and _cancel_jobs_locked clears next_runs
\* and hands _cancel to the loop.
Stop(c) ==
    /\ clPc[c] = "idle"
    /\ scLock = "free"
    /\ IF ~scRunning
       THEN /\ scLastCall' = [op |-> "stop", effect |-> FALSE]
            /\ UNCHANGED <<scLock, scStopEvent, scCallback, scNextRuns, clPc>>
       ELSE /\ scLock' = c
            /\ scStopEvent' = TRUE
            /\ scNextRuns' = CancelledNextRuns
            /\ scCallback' = Post("cancel", "-")
            /\ clPc' = [clPc EXCEPT ![c] = "stop_wait"]
            /\ UNCHANGED scLastCall
    /\ UNCHANGED <<scRunning, scLoopVars, scBusy, scJobs, scInstances,
                   scLastPoll, scClock, clTodo, clPass, psPasses, psCalled,
                   igVars>>
    /\ UNCHANGED scOthers

\* stop(): done.wait() returns; running is cleared, loop.stop is handed to the
\* loop, the references are dropped and the lock is left; thread.join waits
\* for the thread at most two seconds.
StopWait(c) ==
    /\ clPc[c] = "stop_wait"
    /\ scCallback.done
    /\ scRunning' = FALSE
    /\ scStopPending' = (scAlive # 0)
    /\ scLoopRef' = 0
    /\ scLock' = "free"
    /\ scLastCall' = [op |-> "stop", effect |-> TRUE]
    /\ clPc' = [clPc EXCEPT ![c] = "idle"]
    /\ UNCHANGED <<scStopEvent, scAlive, scLoops, scBusy, scCallback, scJobVars,
                   scLastPoll, scClock, clTodo, clPass, psPasses, psCalled,
                   igVars>>
    /\ UNCHANGED scOthers

\* refresh_config(): under the lock; the config is replaced, and on a running
\* scheduler the jobs are cancelled and added again.
RefreshConfig(c) ==
    /\ clPc[c] = "idle"
    /\ scLock = "free"
    /\ IF scRunning /\ ~scStopEvent
       THEN /\ scLock' = c
            /\ scNextRuns' = CancelledNextRuns
            /\ scCallback' = Post("cancel", "-")
            /\ clPc' = [clPc EXCEPT ![c] = "refresh_wait"]
            /\ UNCHANGED scLastCall
       ELSE /\ scLastCall' = [op |-> "refresh_config", effect |-> FALSE]
            /\ UNCHANGED <<scLock, scCallback, scNextRuns, clPc>>
    /\ UNCHANGED <<scRunning, scStopEvent, scLoopVars, scBusy, scJobs,
                   scInstances, scLastPoll, scClock, clTodo, clPass, psPasses,
                   psCalled, igVars>>
    /\ UNCHANGED scOthers

\* refresh_config(): done.wait() of _cancel_jobs_locked returns;
\* _schedule_from_config_locked follows.
RefreshWait(c) ==
    /\ clPc[c] = "refresh_wait"
    /\ scCallback.done
    /\ clPc' = [clPc EXCEPT ![c] = "add_job"]
    /\ clTodo' = [clTodo EXCEPT ![c] = PollJobs]
    /\ UNCHANGED <<scLock, scRunning, scStopEvent, scLoopVars, scBusy, scCallback,
                   scJobVars, scLastPoll, scClock, scLastCall, clPass, psPasses,
                   psCalled, igVars>>
    /\ UNCHANGED scOthers

\* trigger_poll(reason): the clock is read and the coroutine is created;
\* _submit_coroutine hands it to the background loop when that is running
\* (the caller returns), and otherwise runs it with asyncio.run in the
\* caller's thread.
TriggerPoll(c, reason) ==
    /\ clPc[c] = "idle"
    /\ scClock < MaxClock
    /\ scClock' = scClock + 1
    /\ IF scLoopRef # 0 /\ scAlive = scLoopRef
       THEN /\ psPasses' = [psPasses EXCEPT ![scClock + 1] =
                               [pc |-> "submitted", reason |-> reason,
                                job |-> "-", loop |-> SchedLoop(scLoopRef)]]
            /\ UNCHANGED clVars
       ELSE /\ psPasses' = [psPasses EXCEPT ![scClock + 1] =
                               [pc |-> "submitted", reason |-> reason,
                                job |-> "-", loop |-> RunLoop(scClock + 1)]]
            /\ clPc' = [clPc EXCEPT ![c] = "asyncio_run"]
            /\ clPass' = [clPass EXCEPT ![c] = scClock + 1]
            /\ UNCHANGED clTodo
    /\ UNCHANGED <<scLock, scRunning, scStopEvent, scLoopVars, scBusy, scCallback,
                   scJobVars, scLastPoll, scLastCall, psCalled, igVars>>
    /\ UNCHANGED scOthers

\* asyncio.run(coro) returns when the coroutine has finished; trigger_poll
\* returns.
AsyncioRunReturn(c) ==
    /\ clPc[c] = "asyncio_run"
    /\ psPasses[clPass[c]].pc = "done"
    /\ clPc' = [clPc EXCEPT ![c] = "idle"]
    /\ clPass' = [clPass EXCEPT ![c] = 0]
    /\ UNCHANGED <<scLock, scRunning, scStopEvent, scLoopVars, scBusy, scCallback,
                   scJobVars, scLastPoll, scClock, scLastCall, clTodo, psPasses,
                   psCalled, igVars>>
    /\ UNCHANGED scOthers

\* The thread of a pass's loop is free to run the pass: the background loop
\* is alive and in no callback; the loop of an asyncio.run is its caller's.
CanRun(t) ==
    \/ psPasses[t].loop.kind = "run"
    \/ /\ psPasses[t].loop.kind = "sched"
       /\ scAlive = psPasses[t].loop.n
       /\ scBusy = NotBusy

\* The background loop runs the callback the lock holder handed over:
\* _schedule adds the job and its next_runs entry, _cancel removes all jobs;
\* both set `done`.
LoopCallback ==
    /\ scAlive # 0
    /\ scBusy = NotBusy
    /\ ~scCallback.done
    /\ IF scCallback.kind = "schedule"
       THEN /\ scJobs' = scJobs \cup {scCallback.job}
            /\ scNextRuns' = scNextRuns \cup {scCallback.job}
       ELSE /\ scJobs' = {}
            /\ UNCHANGED scNextRuns
    /\ scCallback' = NoCallback
    /\ UNCHANGED <<scLock, scRunning, scStopEvent, scLoopVars, scBusy, scInstances,
                   scLastPoll, scClock, scLastCall, clVars, psPasses, psCalled,
                   igVars>>
    /\ UNCHANGED scOthers

\* The background loop runs loop.stop: run_forever returns, the scheduler is
\* shut down and the thread ends; the coroutines of the loop stay where
\* they are.
LoopStop ==
    /\ scAlive # 0
    /\ scBusy = NotBusy
    /\ scStopPending
    /\ scAlive' = 0
    /\ scStopPending' = FALSE
    /\ scInstances' = {}
    /\ UNCHANGED <<scLock, scRunning, scStopEvent, scLoopRef, scLoops, scBusy,
                   scCallback, scJobs, scNextRuns, scLastPoll, scClock, scLastCall,
                   clVars, psPasses, psCalled, igVars>>
    /\ UNCHANGED scOthers

\* An executor that starts a due job whatever is in flight.
InstanceUnlimited(j) == TRUE

\* max_instances = 1: the executor holds no running instance of the job.
InstanceFree(j) == j \notin scInstances

\* A registered interval job comes due: with no execution of it in flight
\* the executor creates the task of _job_run_poll; a firing that comes due
\* while one is in flight is skipped.
JobFire(j) ==
    /\ scAlive # 0
    /\ scBusy = NotBusy
    /\ j \in scJobs
    /\ InstanceFree(j)
    /\ scClock < MaxClock
    /\ scClock' = scClock + 1
    /\ scInstances' = scInstances \cup {j}
    /\ psPasses' = [psPasses EXCEPT ![scClock + 1] =
                       [pc |-> "submitted", reason |-> JobReason(j), job |-> j,
                        loop |-> SchedLoop(scAlive)]]
    /\ UNCHANGED <<scLock, scRunning, scStopEvent, scLoopVars, scBusy, scCallback,
                   scJobs, scNextRuns, scLastPoll, scLastCall, clVars, psCalled,
                   igVars>>
    /\ UNCHANGED scOthers

\* How a pass ends: the task of a job is followed by its completion event.
Ended(pass) == IF pass.job # "-" THEN [pass EXCEPT !.pc = "finished"]
               ELSE DonePass

\* The test of asyncio.Lock.acquire: not locked and no waiter.
GateFree == ~igLocked /\ igWaiters = <<>>

\* A callback that does not look at the stop event.
StopIgnored == FALSE

\* _job_run_poll: `if self._stop_event.is_set(): return`.
StopObserved == scStopEvent

\* The coroutine runs up to its first suspension. _job_run_poll returns when
\* the stop event is set. _run_poll records the poll in the health state and
\* calls ingest.run_poll: `async with self._lock`, asyncio.Lock.acquire. The
\* lock is not thread-safe: a pass that finds it free sets _locked in a later
\* step of its thread, and passes of other threads run in between. A pass
\* that finds it taken waits in _waiters, which binds the lock to the loop of
\* the first waiter and raises RuntimeError in every other loop.
PassStart(t) ==
    /\ psPasses[t].pc = "submitted"
    /\ CanRun(t)
    /\ IF psPasses[t].job # "-" /\ StopObserved
       THEN /\ psPasses' = [psPasses EXCEPT ![t].pc = "finished"]
            /\ UNCHANGED <<scLastPoll, psCalled, igVars, scBusy>>
       ELSE /\ scLastPoll' = [at |-> t, reason |-> psPasses[t].reason]
            /\ psCalled' = psCalled \cup {t}
            /\ IF GateFree
               THEN /\ psPasses' = [psPasses EXCEPT ![t].pc = "acquire_set"]
                    /\ scBusy' = IF psPasses[t].loop.kind = "sched"
                                 THEN [in |-> "acquire", id |-> t, job |-> "-"]
                                 ELSE scBusy
                    /\ UNCHANGED igVars
               ELSE IF igBound \in {NoLoop, psPasses[t].loop}
                    THEN /\ igBound' = psPasses[t].loop
                         /\ igWaiters' = Append(igWaiters, t)
                         /\ psPasses' = [psPasses EXCEPT ![t].pc = "waiting"]
                         /\ UNCHANGED <<igLocked, scBusy>>
                    ELSE /\ psPasses' = [psPasses EXCEPT ![t] = Ended(@)]
                         /\ UNCHANGED <<igVars, scBusy>>
    /\ UNCHANGED <<scLock, scRunning, scStopEvent, scLoopVars, scCallback,
                   scJobVars, scClock, scLastCall, clVars>>
    /\ UNCHANGED scOthers

\* asyncio.Lock.acquire, fast path: `self._locked = True`; _run_modules begins.
PassSet(t) ==
    /\ psPasses[t].pc = "acquire_set"
    /\ \/ psPasses[t].loop.kind = "run"
       \/ /\ scAlive = psPasses[t].loop.n
          /\ scBusy = [in |-> "acquire", id |-> t, job |-> "-"]
    /\ igLocked' = TRUE
    /\ psPasses' = [psPasses EXCEPT ![t].pc = "modules"]
    /\ scBusy' = IF psPasses[t].loop.kind = "sched" THEN NotBusy ELSE scBusy
    /\ UNCHANGED <<scLock, scRunning, scStopEvent, scLoopVars, scCallback,
                   scJobVars, scLastPoll, scClock, scLastCall, clVars, psCalled,
                   igWaiters, igBound>>
    /\ UNCHANGED scOthers

\* _run_modules is over and the lock is released: _locked is cleared and the
\* future of the first waiter is set.
PassRelease(t) ==
    /\ psPasses[t].pc = "modules"
    /\ CanRun(t)
    /\ igLocked' = FALSE
    /\ psPasses' = [u \in DOMAIN psPasses |->
                       IF u = t THEN Ended(psPasses[t])
                       ELSE IF igWaiters # <<>> /\ u = Head(igWaiters)
                               /\ psPasses[u].pc = "waiting"
                            THEN [psPasses[u] EXCEPT !.pc = "woken"]
                            ELSE psPasses[u]]
    /\ UNCHANGED <<scLock, scRunning, scStopEvent, scLoopVars, scBusy, scCallback,
                   scJobVars, scLastPoll, scClock, scLastCall, clVars, psCalled,
                   igWaiters, igBound>>
    /\ UNCHANGED scOthers

\* asyncio.Lock.acquire, after the wait: the future is removed from _waiters
\* and `self._locked = True`; _run_modules begins.
PassWoken(t) ==
    /\ psPasses[t].pc = "woken"
    /\ CanRun(t)
    /\ igWaiters' = SelectSeq(igWaiters, LAMBDA u : u # t)
    /\ igLocked' = TRUE
    /\ psPasses' = [psPasses EXCEPT ![t].pc = "modules"]
    /\ UNCHANGED <<scLock, scRunning, scStopEvent, scLoopVars, scBusy, scCallback,
                   scJobVars, scLastPoll, scClock, scLastCall, clVars, psCalled,
                   igBound>>
    /\ UNCHANGED scOthers

\* _on_job_event under the lock: the next_runs entry of the job is refreshed
\* when the scheduler is there and the job is still registered, and dropped
\* otherwise.
NextRunsAfterEvent(j) == IF scLoopRef # 0 /\ j \in scJobs
                         THEN scNextRuns \cup {j}
                         ELSE scNextRuns \ {j}

\* The task of a job is done: the executor releases the instance and
\* dispatches the job event; the listener _on_job_event runs in the loop
\* thread and blocks it while the scheduler lock is held.
JobEvent(t) ==
    /\ psPasses[t].pc = "finished"
    /\ CanRun(t)
    /\ scInstances' = scInstances \ {psPasses[t].job}
    /\ psPasses' = [psPasses EXCEPT ![t] = DonePass]
    /\ IF scLock = "free"
       THEN /\ scNextRuns' = NextRunsAfterEvent(psPasses[t].job)
            /\ UNCHANGED scBusy
       ELSE /\ scBusy' = [in |-> "event", id |-> 0, job |-> psPasses[t].job]
            /\ UNCHANGED scNextRuns
    /\ UNCHANGED <<scLock, scRunning, scStopEvent, scLoopVars, scCallback, scJobs,
                   scLastPoll, scClock, scLastCall, clVars, psCalled, igVars>>
    /\ UNCHANGED scOthers

\* The lock was left: the blocked _on_job_event takes it and goes on.
JobEventLocked ==
    /\ scBusy.in = "event"
    /\ scLock = "free"
    /\ scNextRuns' = NextRunsAfterEvent(scBusy.job)
    /\ scBusy' = NotBusy
    /\ UNCHANGED <<scLock, scRunning, scStopEvent, scLoopVars, scCallback, scJobs,
                   scInstances, scLastPoll, scClock, scLastCall, clVars, psPasses,
                   psCalled, igVars>>
    /\ UNCHANGED scOthers

InitSched ==
    /\ scLock = "free"
    /\ scRunning = FALSE
    /\ scStopEvent = FALSE
    /\ scLoopRef = 0
    /\ scAlive = 0
    /\ scLoops = 0
    /\ scStopPending = FALSE
    /\ scBusy = NotBusy
    /\ scCallback = NoCallback
    /\ scJobs = {}
    /\ scNextRuns = {}
    /\ scInstances = {}
    /\ scLastPoll = NoPoll
    /\ scClock = 0
    /\ scLastCall = [op |-> "-", effect |-> FALSE]
    /\ clPc = [c \in Callers |-> "idle"]
    /\ clTodo = [c \in Callers |-> <<>>]
    /\ clPass = [c \in Callers |-> 0]
    /\ psPasses = [t \in 1..MaxClock |-> NoPass]
    /\ psCalled = {}
    /\ igLocked = FALSE
    /\ igWaiters = <<>>
    /\ igBound = NoLoop

\* A step of a caller thread.
CallerStep(c) ==
    \/ Start(c)
    \/ AddJob(c)
    \/ AddWait(c)
    \/ Stop(c)
    \/ StopWait(c)
    \/ RefreshConfig(c)
    \/ RefreshWait(c)
    \/ TriggerPoll(c, "manual")
    \/ AsyncioRunReturn(c)

\* A step of a coroutine, in the thread of its loop.
PassStep(t) ==
    \/ PassStart(t)
    \/ PassSet(t)
    \/ PassRelease(t)
    \/ PassWoken(t)
    \/ JobEvent(t)

\* A step of the background loop's own callbacks.
LoopStep ==
    \/ LoopCallback
    \/ LoopStop
    \/ \E j \in {PollJobs[i] : i \in DOMAIN PollJobs} : JobFire(j)
    \/ JobEventLocked

NextSched ==
    \/ \E c \in Callers : CallerStep(c)
    \/ \E t \in 1..MaxClock : PassStep(t)
    \/ LoopStep

-----------------------------------------------------------------------------
(***************************************************************************)
(* AlertsService._in_quiet_hours (starlinker_news/alerts.py) as a function *)
(* of the quiet_hours of the config and the local time of the moment       *)
(***************************************************************************)

\* The window ends of the configs and the local times of the calls.
QuietTexts ==
    {Text(0, 0, 0, 0), Text(0, 7, 0, 0), Text(0, 8, 0, 0), Text(2, 3, 0, 0),
     Text(2, 3, 5, 9)}

QuietTimes ==
    {Time(0, 0), Time(6, 59), Time(7, 0), Time(8, 0), Time(22, 59),
     Time(23, 0), Time(23, 30), Time(23, 59)}

NoQuietCall == [pc |-> "idle", quiet_hours |-> <<>>,
                now |-> [hour |-> 0, minute |-> 0], result |-> FALSE]

\* A call with some quiet_hours and some local time is about to be made.
InitQuiet ==
    qhCall \in [pc : {"call"}, quiet_hours : QuietTexts \X QuietTexts,
                now : QuietTimes, result : {FALSE}]

IdleQuiet == qhCall = NoQuietCall

\* _in_quiet_hours(config, moment) returns.
QuietHoursCall ==
    /\ qhCall.pc = "call"
    /\ qhCall' = [qhCall EXCEPT !.pc = "done",
                                !.result = InQuietHours(qhCall.quiet_hours,
                                                        qhCall.now)]
    /\ UNCHANGED qhOthers

NextQuiet == QuietHoursCall

-----------------------------------------------------------------------------
(***************************************************************************)
(* IngestManager._run_modules (starlinker_news/ingest/manager.py): one     *)
(* poll pass over the registered modules, inside the gate of run_poll      *)
(***************************************************************************)

\* The registered modules, in the order of register_module.
IngestModules == <<"m1", "m2", "m3">>

\* The passes of a behaviour.
MaxPasses == 2

\* The longest list of signals a module returns.
MaxFetched == 2

PollReasons == {"manual", "schedule:priority"}

\* The signals the modules return: two URLs that differ in case only.
FetchedSignals ==
    {sig \in NormalizedSignals : sig.priority = 90 /\ Lower(sig.url) = <<"/", "a">>}

FetchedBatches ==
    UNION {[1..n -> FetchedSignals] : n \in 0..MaxFetched}

\* What a module does in a pass: enabled(config) is false, or run raises, or
\* run returns a list of signals.
ModuleOutcomes ==
    {[kind |-> "disabled", signals |-> <<>>], [kind |-> "raised", signals |-> <<>>]}
    \cup {[kind |-> "ran", signals |-> b] : b \in FetchedBatches}

\* store_signals(signals) as a whole: the rows of the table afterwards and
\* the count it returns.
\* A loop that counts the rows the index rejected as well.
CountedSkipped(result) == [result EXCEPT !.inserted = @ + 1]

\* except sqlite3.IntegrityError: continue -- the counter is left alone.
Skipped(result) == result

RECURSIVE StoreSignals(_, _)
StoreSignals(rows, signals) ==
    IF signals = <<>> THEN [rows |-> rows, inserted |-> 0]
    ELSE IF IntegrityError(rows, Head(signals))
         THEN Skipped(StoreSignals(rows, Tail(signals)))
         ELSE LET rest == StoreSignals(Append(rows, Head(signals)), Tail(signals))
              IN [rest EXCEPT !.inserted = @ + 1]

NoSummary == [fetched |-> 0, stored |-> 0, present |-> FALSE]

NoOutcome == [kind |-> "none", signals |-> <<>>]

\* No pass so far. idx is the module the loop is at, summary the dict the pass
\* returns (present: the name is a key of it), did the history of what each
\* module did in the pass.
NoIngestPass ==
    [pc |-> "idle", reason |-> "-", idx |-> 0,
     summary |-> [i \in DOMAIN IngestModules |-> NoSummary],
     did |-> [i \in DOMAIN IngestModules |-> NoOutcome]]

\* A loop that gives up at the first module that raises.
StopAfterError(i) == Len(IngestModules) + 1

\* `continue` in the except clause: the loop goes on with the next module.
ContinueAfterError(i) == i + 1

\* _run_modules(config, reason, triggered_at) begins.
PollBegin(reason) ==
    /\ inPass.pc \in {"idle", "done"}
    /\ inPasses < MaxPasses
    /\ inPasses' = inPasses + 1
    /\ inPass' = [NoIngestPass EXCEPT !.pc = "modules", !.reason = reason,
                                      !.idx = 1]
    /\ inNewErrors' = <<>>
    /\ UNCHANGED nwSignals
    /\ UNCHANGED inOthers

\* One round of the loop: a module that is not enabled is passed over; a
\* module whose run raises leaves an error row; otherwise its signals are
\* stored and its summary entry is written.
PollModule(outcome) ==
    /\ inPass.pc = "modules"
    /\ inPass.idx <= Len(IngestModules)
    /\ LET i == inPass.idx
           name == IngestModules[i]
           seen == [inPass EXCEPT !.did[i] = outcome]
       IN CASE outcome.kind = "disabled" ->
                 /\ inPass' = [seen EXCEPT !.idx = i + 1]
                 /\ UNCHANGED <<inNewErrors, nwSignals>>
            [] outcome.kind = "raised" ->
                 /\ inNewErrors' = Append(inNewErrors,
                                          [module |-> name,
                                           reason |-> inPass.reason])
                 /\ inPass' = [seen EXCEPT !.idx = ContinueAfterError(i)]
                 /\ UNCHANGED nwSignals
            [] outcome.kind = "ran" ->
                 LET stored == StoreSignals(nwSignals, outcome.signals) IN
                 /\ nwSignals' = stored.rows
                 /\ inPass' = [seen EXCEPT
                                  !.idx = i + 1,
                                  !.summary[i] =
                                      [fetched |-> Len(outcome.signals),
                                       stored |-> stored.inserted,
                                       present |-> TRUE]]
                 /\ UNCHANGED inNewErrors
    /\ UNCHANGED inPasses
    /\ UNCHANGED inOthers

\* The loop is over: the summary is returned.
PollReturn ==
    /\ inPass.pc = "modules"
    /\ inPass.idx > Len(IngestModules)
    /\ inPass' = [inPass EXCEPT !.pc = "done"]
    /\ UNCHANGED <<inNewErrors, inPasses, nwSignals>>
    /\ UNCHANGED inOthers

InitIngest ==
    /\ inPass = NoIngestPass
    /\ inNewErrors = <<>>
    /\ inPasses = 0

NextIngest ==
    \/ \E reason \in PollReasons : PollBegin(reason)
    \/ \E outcome \in ModuleOutcomes : PollModule(outcome)
    \/ PollReturn

-----------------------------------------------------------------------------
(***************************************************************************)
(* EventBus (event_bus.py): subscribe, unsubscribe and publish. The lock   *)
(* is held while _subs is read or changed and not while the handlers run,  *)
(* so handlers and other threads subscribe and unsubscribe during a        *)
(* delivery. publish and its handlers run on thread "main"; "worker" is     *)
(* another thread using the same bus.                                      *)
(***************************************************************************)

Topics == {"greet", "other"}

Threads == {"main", "worker"}

\* RLock: free, or held by the thread that asks for it again.
Acquirable(thread) == ebLock \in {"-", thread}

Handlers == {"h1", "h2"}

\* The most subscriptions the bus holds at a time, all topics together.
MaxSubs == 3

RECURSIVE Subscriptions(_)
Subscriptions(topics) ==
    IF topics = {} THEN 0
    ELSE LET topic == CHOOSE t \in topics : TRUE
         IN Len(ebSubs[topic]) + Subscriptions(topics \ {topic})

\* No publish call so far. handlers is the copy publish iterates, idx the
\* position of the loop in it, calls the history of the handlers invoked and
\* whether each raised, subscribed the history of the topic's list at the
\* time of the call.
NoPublish ==
    [pc |-> "idle", topic |-> "-", handlers |-> <<>>, idx |-> 0,
     calls |-> <<>>, subscribed |-> <<>>]

\* list.remove(x): the first occurrence goes.
RECURSIVE Remove(_, _)
Remove(list, x) ==
    IF list = <<>> THEN <<>>
    ELSE IF Head(list) = x THEN Tail(list)
    ELSE <<Head(list)>> \o Remove(Tail(list), x)

\* No publish from inside a handler so far.
NoInner == [pc |-> "idle", topic |-> "-", handlers |-> <<>>, idx |-> 0,
            calls |-> <<>>]

\* subscribe(topic, handler), by a handler of the delivery in progress or by
\* any thread: the lock is taken, the handler appended, the lock released.
Subscribe(thread, topic, h) ==
    /\ Acquirable(thread)
    /\ thread = "main" => ebPub.pc # "snapshot"
    /\ Subscriptions(Topics) < MaxSubs
    /\ ebSubs' = [ebSubs EXCEPT ![topic] = Append(@, h)]
    /\ UNCHANGED <<ebPub, ebLock, ebInner>>
    /\ UNCHANGED ebCallbacks
    /\ UNCHANGED ebOthers

\* The callable subscribe returned is called.
Unsubscribe(thread, topic, h) ==
    /\ Acquirable(thread)
    /\ thread = "main" => ebPub.pc # "snapshot"
    /\ \E i \in DOMAIN ebSubs[topic] : ebSubs[topic][i] = h
    /\ ebSubs' = [ebSubs EXCEPT ![topic] = Remove(@, h)]
    /\ UNCHANGED <<ebPub, ebLock, ebInner>>
    /\ UNCHANGED ebCallbacks
    /\ UNCHANGED ebOthers

\* publish(topic, payload) begins: with self._lock is entered.
PublishBegin(topic) ==
    /\ ebPub.pc \in {"idle", "done"}
    /\ Acquirable("main")
    /\ ebPub' = [NoPublish EXCEPT !.pc = "snapshot", !.topic = topic]
    /\ ebLock' = "main"
    /\ ebInner' = NoInner
    /\ UNCHANGED ebSubs
    /\ UNCHANGED ebCallbacks
    /\ UNCHANGED ebOthers

\* The list of the topic is copied and the with block is left.
PublishSnapshot ==
    /\ ebPub.pc = "snapshot"
    /\ ebPub' = [ebPub EXCEPT !.pc = "deliver",
                              !.handlers = ebSubs[ebPub.topic], !.idx = 1,
                              !.subscribed = ebSubs[ebPub.topic]]
    /\ ebLock' = "-"
    /\ UNCHANGED <<ebSubs, ebInner>>
    /\ UNCHANGED ebCallbacks
    /\ UNCHANGED ebOthers

\* A loop that reads the list of the topic as it is at each round.
LiveList(frame) == ebSubs[frame.topic]

\* for h in handlers: the loop goes over the copy.
Recipients(frame) == frame.handlers

\* A delivery that ends with the first handler that raises.
AbortDelivery(i) == Len(ebPub.handlers) + 1

\* except Exception: the error is logged and the loop goes on.
AfterHandlerError(i) == i + 1

\* One round of the loop: the handler is called with the payload and returns
\* or raises, the publish calls it made being over.
PublishCall(raises) ==
    /\ ebPub.pc = "deliver"
    /\ ebInner.pc # "deliver"
    /\ ebPub.idx <= Len(Recipients(ebPub))
    /\ ebPub' = [ebPub EXCEPT
                    !.calls = Append(@, [handler |-> Recipients(ebPub)[ebPub.idx],
                                         raised |-> raises]),
                    !.idx = IF raises THEN AfterHandlerError(@) ELSE @ + 1]
    /\ ebInner' = NoInner
    /\ UNCHANGED <<ebSubs, ebLock>>
    /\ UNCHANGED ebCallbacks
    /\ UNCHANGED ebOthers

\* The loop is over: publish returns None.
PublishReturn ==
    /\ ebPub.pc = "deliver"
    /\ ebInner.pc # "deliver"
    /\ ebPub.idx > Len(Recipients(ebPub))
    /\ ebPub' = [ebPub EXCEPT !.pc = "done"]
    /\ UNCHANGED <<ebSubs, ebLock, ebInner>>
    /\ UNCHANGED ebCallbacks
    /\ UNCHANGED ebOthers

\* The handler publish is calling publishes on the same bus: the lock is
\* taken, the list of the topic copied and the lock released.
InnerBegin(topic) ==
    /\ ebPub.pc = "deliver"
    /\ ebPub.idx <= Len(Recipients(ebPub))
    /\ ebInner.pc # "deliver"
    /\ Acquirable("main")
    /\ ebInner' = [NoInner EXCEPT !.pc = "deliver", !.topic = topic,
                                  !.handlers = ebSubs[topic], !.idx = 1]
    /\ UNCHANGED <<ebSubs, ebPub, ebLock>>
    /\ UNCHANGED ebCallbacks
    /\ UNCHANGED ebOthers

\* One round of the loop of the publish made by the handler.
InnerCall ==
    /\ ebInner.pc = "deliver"
    /\ ebInner.idx <= Len(Recipients(ebInner))
    /\ ebInner' = [ebInner EXCEPT
                      !.calls = Append(@, Recipients(ebInner)[ebInner.idx]),
                      !.idx = @ + 1]
    /\ UNCHANGED <<ebSubs, ebPub, ebLock>>
    /\ UNCHANGED ebCallbacks
    /\ UNCHANGED ebOthers

\* The publish made by the handler returns to the handler.
InnerReturn ==
    /\ ebInner.pc = "deliver"
    /\ ebInner.idx > Len(Recipients(ebInner))
    /\ ebInner' = [ebInner EXCEPT !.pc = "done"]
    /\ UNCHANGED <<ebSubs, ebPub, ebLock>>
    /\ UNCHANGED ebCallbacks
    /\ UNCHANGED ebOthers

\* The subscribe calls whose callback the caller keeps, in a behaviour.
MaxCallbacks == 3

\* subscribe(topic, handler) by a caller that keeps the callable it returns:
\* the closure holds the topic and the handler.
SubscribeKeeping(topic, h) ==
    /\ Acquirable("main")
    /\ Len(ebCallbacks) < MaxCallbacks
    /\ ebSubs' = [ebSubs EXCEPT ![topic] = Append(@, h)]
    /\ ebCallbacks' = Append(ebCallbacks,
                             [topic |-> topic, handler |-> h, called |-> FALSE])
    /\ UNCHANGED <<ebPub, ebLock, ebInner>>
    /\ UNCHANGED ebOthers

\* The k-th callback is called, for the first time or again: when the
\* handler is in the list of the topic, list.remove(handler) takes its first
\* occurrence out; otherwise nothing happens.
Release(k) ==
    /\ Acquirable("main")
    /\ LET cb == ebCallbacks[k] IN
       /\ ebSubs' = IF \E i \in DOMAIN ebSubs[cb.topic] :
                          ebSubs[cb.topic][i] = cb.handler
                    THEN [ebSubs EXCEPT ![cb.topic] = Remove(@, cb.handler)]
                    ELSE ebSubs
       /\ ebCallbacks' = [ebCallbacks EXCEPT ![k].called = TRUE]
    /\ UNCHANGED <<ebPub, ebLock, ebInner>>
    /\ UNCHANGED ebOthers

InitBus ==
    /\ ebSubs = [topic \in Topics |-> <<>>]
    /\ ebPub = NoPublish
    /\ ebLock = "-"
    /\ ebInner = NoInner
    /\ ebCallbacks = <<>>

NextBus ==
    \/ \E thread \in Threads, topic \in Topics, h \in Handlers :
          Subscribe(thread, topic, h)
    \/ \E thread \in Threads, topic \in Topics, h \in Handlers :
          Unsubscribe(thread, topic, h)
    \/ \E topic \in Topics : PublishBegin(topic)
    \/ PublishSnapshot
    \/ \E raises \in BOOLEAN : PublishCall(raises)
    \/ PublishReturn

\* The bus with callers that keep the callbacks subscribe returns and call
\* them, each any number of times.
NextRelease ==
    \/ \E topic \in Topics, h \in Handlers : SubscribeKeeping(topic, h)
    \/ \E k \in DOMAIN ebCallbacks : Release(k)

\* The bus with handlers that publish on it, on the topic they are called
\* for: every handler returns.
NextReentrant ==
    \/ \E thread \in Threads, h \in Handlers : Subscribe(thread, "greet", h)
    \/ \E thread \in Threads, h \in Handlers : Unsubscribe(thread, "greet", h)
    \/ PublishBegin("greet")
    \/ PublishSnapshot
    \/ PublishCall(FALSE)
    \/ PublishReturn
    \/ InnerBegin("greet")
    \/ InnerCall
    \/ InnerReturn

-----------------------------------------------------------------------------
(***************************************************************************)
(* CapabilityRegistry (capabilities.py): bind and get. Versions are        *)
(* release versions (no pre-release, post-release or local part) written   *)
(* as their release segments; unbind is not modelled.                      *)
(***************************************************************************)

CapNames == {"svc", "aux"}

\* The names capabilities are bound under; the other name is only queried.
BoundNames == {"svc"}

\* The bind calls of a behaviour.
MaxBinds == 3

\* The version texts of capabilities and queries: 1.0, 1.0.0, 1.5 and 2.0.
Releases == {<<1, 0>>, <<1, 0, 0>>, <<1, 5>>, <<2, 0>>}

\* The provider objects: two module instances, which Python compares by
\* identity and cannot order, and two strings, "a" < "b".
ProviderObjects ==
    {[kind |-> "object", id |-> 1, ref |-> 1],
     [kind |-> "object", id |-> 2, ref |-> 2],
     [kind |-> "str", id |-> 1, ref |-> 3], [kind |-> "str", id |-> 2, ref |-> 4]}

NoObject == [kind |-> "None", id |-> 0, ref |-> 0]

\* a == b of two provider objects: a plain object equals itself only, two
\* strings are equal when their values (id) are; ref is the object's
\* identity.
ObjEq(a, b) ==
    a.kind = b.kind /\ a.id = b.id /\ (a.kind = "object" => a.ref = b.ref)

\* packaging's Version._key of a release version: the release segments
\* without trailing zeros.
RECURSIVE VersionKey(_)
VersionKey(release) ==
    IF release # <<>> /\ release[Len(release)] = 0
    THEN VersionKey(SubSeq(release, 1, Len(release) - 1))
    ELSE release

\* The order of tuples of integers.
RECURSIVE TupleLess(_, _)
TupleLess(a, b) ==
    IF b = <<>> THEN FALSE
    ELSE IF a = <<>> THEN TRUE
    ELSE IF Head(a) # Head(b) THEN Head(a) < Head(b)
    ELSE TupleLess(Tail(a), Tail(b))

\* Version.__eq__ and Version.__lt__
VersionEq(a, b) == VersionKey(a) = VersionKey(b)

VersionLess(a, b) == TupleLess(VersionKey(a), VersionKey(b))

\* obj < obj is defined for two strings only; otherwise it raises TypeError.
Orderable(a, b) == a.kind = "str" /\ b.kind = "str"

\* Provider.__lt__ of @dataclass(order = True) compares the tuples
\* (version, obj, order): the first field that differs decides. Comparable
\* tells whether the comparison returns at all.
Comparable(p, q) ==
    VersionEq(p.version, q.version) /\ ~ObjEq(p.obj, q.obj) =>
        Orderable(p.obj, q.obj)

ProviderLess(p, q) ==
    IF ~VersionEq(p.version, q.version) THEN VersionLess(p.version, q.version)
    ELSE IF ~ObjEq(p.obj, q.obj) THEN p.obj.id < q.obj.id
    ELSE p.order < q.order

\* list.sort() of a list whose elements are all comparable.
RECURSIVE Insert(_, _)
Insert(list, p) ==
    IF list = <<>> THEN <<p>>
    ELSE IF ProviderLess(p, Head(list)) THEN <<p>> \o list
    ELSE <<Head(list)>> \o Insert(Tail(list), p)

RECURSIVE Sort(_)
Sort(list) ==
    IF list = <<>> THEN <<>>
    ELSE Insert(Sort(SubSeq(list, 1, Len(list) - 1)), list[Len(list)])

\* list.sort() raises TypeError when it has to compare two elements that are
\* not comparable, and then leaves the list as it was.
SortRaises(list) ==
    \E i, j \in DOMAIN list : i < j /\ ~Comparable(list[i], list[j])

\* The queries of get: the text before "@" and what follows it. bare has no
\* "@", empty has nothing after it, exact begins with a digit, caret with
\* "^"; a range is a list of comparator clauses.
QuerySpecs ==
    {[kind |-> "bare", ver |-> <<>>, clauses |-> <<>>],
     [kind |-> "empty", ver |-> <<>>, clauses |-> <<>>]}
    \cup {[kind |-> "exact", ver |-> v, clauses |-> <<>>] : v \in Releases}
    \cup {[kind |-> "caret", ver |-> v, clauses |-> <<>>] :
             v \in {<<1, 0>>, <<1, 5>>, <<2, 0>>}}
    \cup {[kind |-> "range", ver |-> <<>>, clauses |-> c] :
             c \in {<<[op |-> ">=", ver |-> <<1, 5>>]>>,
                    <<[op |-> "<", ver |-> <<1, 0>>]>>,
                    <<[op |-> ">=", ver |-> <<1, 0>>],
                      [op |-> "<", ver |-> <<2, 0>>]>>}}

Queries == [name : CapNames, spec : QuerySpecs]

NoCapCall ==
    [op |-> "none", name |-> "-", spec |-> [kind |-> "-"], found |-> FALSE,
     obj |-> NoObject, raised |-> FALSE]

\* bind(capability, provider): the provider is appended and the list sorted.
Bind(name, ver, provider) ==
    /\ cpCounter < MaxBinds
    /\ LET prov == [version |-> ver, obj |-> provider, order |-> cpCounter]
           appended == Append(cpProviders[name], prov)
       IN /\ cpProviders' = [cpProviders EXCEPT
                                ![name] = IF SortRaises(appended) THEN appended
                                          ELSE Sort(appended)]
          /\ cpCall' = [NoCapCall EXCEPT !.op = "bind", !.name = name,
                                         !.raised = SortRaises(appended)]
    /\ cpCounter' = cpCounter + 1
    /\ UNCHANGED cpOthers

\* version in SpecifierSet(...): every clause holds.
InSpecifierSet(ver, clauses) ==
    \A k \in DOMAIN clauses :
        IF clauses[k].op = ">=" THEN ~VersionLess(ver, clauses[k].ver)
        ELSE VersionLess(ver, clauses[k].ver)

\* "^X.Y" rewritten as ">=X.Y,<(X+1).0"
CaretClauses(base) ==
    <<[op |-> ">=", ver |-> base], [op |-> "<", ver |-> <<base[1] + 1, 0>>]>>

\* The loop of get over the providers: best so far, replaced by a provider
\* of the set with a greater version, or the same version and a lesser order.
RECURSIVE BestOf(_, _, _)
BestOf(providers, clauses, best) ==
    IF providers = <<>> THEN best
    ELSE LET p == Head(providers)
             better ==
                 /\ InSpecifierSet(p.version, clauses)
                 /\ \/ best = <<>>
                    \/ VersionLess(best[1].version, p.version)
                    \/ /\ VersionEq(p.version, best[1].version)
                       /\ p.order < best[1].order
         IN BestOf(Tail(providers), clauses, IF better THEN <<p>> ELSE best)

\* The providers get returns: one or none.
GetProvider(providers, spec) ==
    IF providers = <<>> THEN <<>>
    ELSE IF spec.kind \in {"bare", "empty"} THEN <<providers[Len(providers)]>>
    ELSE IF spec.kind = "exact"
         THEN LET hits == {i \in DOMAIN providers :
                              VersionEq(providers[i].version, spec.ver)}
              IN IF hits = {} THEN <<>>
                 ELSE <<providers[CHOOSE i \in hits : \A k \in hits : i <= k]>>
    ELSE BestOf(providers,
                IF spec.kind = "caret" THEN CaretClauses(spec.ver)
                ELSE spec.clauses,
                <<>>)

\* get(query)
Get(query) ==
    /\ LET got == GetProvider(cpProviders[query.name], query.spec)
       IN cpCall' = [NoCapCall EXCEPT
                        !.op = "get", !.name = query.name, !.spec = query.spec,
                        !.found = (got # <<>>),
                        !.obj = IF got = <<>> THEN NoObject ELSE got[1].obj]
    /\ UNCHANGED <<cpProviders, cpCounter>>
    /\ UNCHANGED cpOthers

\* The objects bound and unbound: two strings of one value that are two
\* objects, a string of another value and a plain object.
TwinObjects ==
    {[kind |-> "str", id |-> 1, ref |-> 3], [kind |-> "str", id |-> 1, ref |-> 5],
     [kind |-> "str", id |-> 2, ref |-> 4], [kind |-> "object", id |-> 1, ref |-> 1]}

\* The versions they are bound with.
TwinReleases == {<<1, 0>>, <<2, 0>>}

\* unbind(capability, provider): the list of the name without the entries of
\* that version whose object == provider.
Unbind(name, ver, provider) ==
    LET Kept(p) == ~(VersionEq(p.version, ver) /\ ObjEq(p.obj, provider))
    IN /\ cpProviders' = [cpProviders EXCEPT ![name] = SelectSeq(@, Kept)]
       /\ cpCall' = [NoCapCall EXCEPT !.op = "unbind", !.name = name,
                                      !.obj = provider]
       /\ UNCHANGED cpCounter
       /\ UNCHANGED cpOthers

InitCaps ==
    /\ cpProviders = [name \in CapNames |-> <<>>]
    /\ cpCounter = 0
    /\ cpCall = NoCapCall

NextCaps ==
    \/ \E name \in BoundNames, ver \in Releases, provider \in ProviderObjects :
          Bind(name, ver, provider)
    \/ \E query \in Queries : Get(query)

-----------------------------------------------------------------------------
(***************************************************************************)
(* StarlinkerBackend: the settings repository and the life cycle of the    *)
(* scheduler, one step per public call (each holds SchedulerService._lock  *)
(* from its first statement to its last; the hand-over to the background   *)
(* loop inside a call is what SpecSched follows step by step).             *)
(***************************************************************************)

\* How many polls are recorded.
MaxPolls == 2

\* config.py THEME_SLUGS.
THEME_SLUGS == {"neutral", "uee", "crusader", "drake", "rsi"}

\* The texts of "soon", "mon 09:00" and "" as sequences of characters.
Soon == <<"s", "o", "o", "n">>

MonNine == <<"m", "o", "n", " ">> \o Text(0, 9, 0, 0)

\* StarlinkerConfig(): the sections the model follows, with their defaults.
DefaultConfig ==
    [appearance |-> [theme |-> "neutral"],
     schedule |-> [digest_daily |-> Text(0, 9, 0, 0),
                   digest_weekly |-> <<>>,
                   priority_poll_minutes |-> 60,
                   standard_poll_hours |-> 6]]

\* The bodies of PATCH /settings: a mapping of sections to mappings of fields.
Patches ==
    {[appearance |-> [theme |-> "unknown"]],
     [appearance |-> [theme |-> "unknown"],
      schedule |-> [priority_poll_minutes |-> 0]],
     [schedule |-> [priority_poll_minutes |-> 0]],
     [schedule |-> [priority_poll_minutes |-> 60]],
     [schedule |-> [standard_poll_hours |-> 0]],
     [schedule |-> [digest_daily |-> Soon]],
     [schedule |-> [digest_daily |-> <<>>]],
     [schedule |-> [digest_daily |-> Text(2, 5, 0, 0)]],
     [schedule |-> [digest_daily |-> Text(0, 9, 0, 0)]],
     [schedule |-> [digest_weekly |-> MonNine]],
     [schedule |-> [digest_weekly |-> Text(0, 9, 0, 0)]],
     [schedule |-> [digest_weekly |-> <<>>]]}

\* The configs a caller hands to SchedulerService.refresh_config directly.
GivenConfigs ==
    {[DefaultConfig EXCEPT !.schedule.standard_poll_hours = 0,
                           !.schedule.digest_weekly = MonNine]}

\* _merge_dict on one section: the fields of the patch replace the base's.
MergeSection(base, patch) ==
    [f \in DOMAIN base \cup DOMAIN patch |->
        IF f \in DOMAIN patch THEN patch[f] ELSE base[f]]

\* _merge_dict: a section of the patch that the base has is merged into it.
MergeDict(base, patch) ==
    [k \in DOMAIN base \cup DOMAIN patch |->
        IF k \notin DOMAIN patch THEN base[k]
        ELSE IF k \in DOMAIN base THEN MergeSection(base[k], patch[k])
        ELSE patch[k]]

\* StarlinkerConfig.model_validate accepts the mapping (validate_theme).
Validates(merged) == merged.appearance.theme \in THEME_SLUGS

\* A setting that is written although validation failed.
SavedAnyway(current, merged) == merged

\* apply_patch when model_validate raises: save is never reached.
SavedOnFailure(current, merged) == current

\* str.strip() for blanks.
RECURSIVE Strip(_)
Strip(text) ==
    IF text = <<>> THEN text
    ELSE IF Head(text) = " " THEN Strip(Tail(text))
    ELSE IF text[Len(text)] = " " THEN Strip(SubSeq(text, 1, Len(text) - 1))
    ELSE text

\* str.split(): the runs of characters between blanks.
RECURSIVE Words(_)
Words(text) ==
    IF text = <<>> THEN <<>>
    ELSE IF Head(text) = " " THEN Words(Tail(text))
    ELSE LET stops == {i \in DOMAIN text : text[i] = " "}
             n == IF stops = {} THEN Len(text) + 1
                  ELSE CHOOSE i \in stops : \A j \in stops : i <= j
         IN <<SubSeq(text, 1, n - 1)>> \o Words(SubSeq(text, n, Len(text)))

\* str.split(":", 1).
SplitColon(text) ==
    LET colons == {i \in DOMAIN text : text[i] = ":"}
    IN IF colons = {} THEN <<text>>
       ELSE LET n == CHOOSE i \in colons : \A j \in colons : i <= j
            IN <<SubSeq(text, 1, n - 1), SubSeq(text, n + 1, Len(text))>>

\* int(part) does not raise ValueError.
IsInt(part) ==
    part # <<>> /\ \A i \in DOMAIN part : \E d \in 0..9 : part[i] = ToString(d)

\* hour, minute = (int(part) for part in text.split(":", 1)).
ParseClock(text) ==
    LET parts == SplitColon(text)
    IN IF Len(parts) = 2 /\ IsInt(parts[1]) /\ IsInt(parts[2])
       THEN [ok |-> TRUE, hour |-> IntOf(parts[1]), minute |-> IntOf(parts[2])]
       ELSE [ok |-> FALSE, hour |-> 0, minute |-> 0]

\* CronTrigger(hour = .., minute = ..) raises ValueError out of range.
CronTriggerRaises(clock) == clock.hour > 23 \/ clock.minute > 59

\* The keys of `weekdays`.
Weekdays ==
    {<<"m", "o", "n">>, <<"t", "u", "e">>, <<"w", "e", "d">>, <<"t", "h", "u">>,
     <<"f", "r", "i">>, <<"s", "a", "t">>, <<"s", "u", "n">>}

\* An interval job that is scheduled whatever its interval.
IntervalAlways(seconds) == "add"

\* _schedule_interval_job (interval_scale is 1).
ScheduleIntervalJob(seconds) == IF seconds <= 0 THEN "remove" ELSE "add"

\* What a clock text leads to once the text is known to be present.
ScheduleClock(text) ==
    LET clock == ParseClock(text)
    IN IF ~clock.ok THEN "remove"
       ELSE IF CronTriggerRaises(clock) THEN "raise"
       ELSE "add"

\* _schedule_daily_digest_locked.
ScheduleDailyDigest(cfg) ==
    LET target == Strip(cfg.schedule.digest_daily)
    IN IF target = <<>> THEN "remove" ELSE ScheduleClock(target)

\* _schedule_weekly_digest_locked.
ScheduleWeeklyDigest(cfg) ==
    LET target == Strip(cfg.schedule.digest_weekly)
        parts == Words(target)
    IN IF target = <<>> THEN "remove"
       ELSE IF Len(parts) # 2 THEN "remove"
       ELSE IF SubSeq(Lower(parts[1]), 1, 3) \notin Weekdays THEN "remove"
       ELSE ScheduleClock(parts[2])

\* The jobs in the order _schedule_from_config_locked goes through them.
JobOrder == <<"priority_poll", "standard_poll", "digest_daily", "digest_weekly">>

JobIds == {JobOrder[i] : i \in DOMAIN JobOrder}

\* What _schedule_from_config_locked does about one job.
Decision(cfg, job) ==
    CASE job = "priority_poll" ->
            ScheduleIntervalJob(cfg.schedule.priority_poll_minutes * 60)
      [] job = "standard_poll" ->
            ScheduleIntervalJob(cfg.schedule.standard_poll_hours * 3600)
      [] job = "digest_daily" -> ScheduleDailyDigest(cfg)
      [] job = "digest_weekly" -> ScheduleWeeklyDigest(cfg)

\* _schedule_from_config_locked: _add_job and _remove_job_locked one job
\* after the other, up to the first job whose trigger raises.
ScheduleFromConfig(cfg, st) ==
    LET raising == {i \in DOMAIN JobOrder : Decision(cfg, JobOrder[i]) = "raise"}
        done == IF raising = {} THEN DOMAIN JobOrder
                ELSE {i \in DOMAIN JobOrder : \A r \in raising : i < r}
        added == {JobOrder[i] : i \in {k \in done : Decision(cfg, JobOrder[k]) = "add"}}
        removed == {JobOrder[i] : i \in done} \ added
    IN [jobs |-> (st.jobs \ removed) \cup added,
        next_runs |-> (st.next_runs \ removed) \cup added,
        raised |-> raising # {}]

\* A cancellation that leaves the entries of _next_runs in place.
KeepNextRuns(next_runs) == next_runs

\* _cancel_jobs_locked: self._next_runs.clear().
CancelNextRuns(next_runs) == {}

\* _cancel_jobs_locked followed by _schedule_from_config_locked.
Reschedule(cfg, next_runs) ==
    ScheduleFromConfig(cfg, [jobs |-> {}, next_runs |-> CancelNextRuns(next_runs),
                          raised |-> FALSE])

NoSnapshot == [pc |-> "idle", running |-> FALSE, last_poll |-> NoPoll,
               next_runs |-> {}]

\* The jobs _schedule_interval_job registers with _job_run_poll.
IntervalJobs == {"priority_poll", "standard_poll"}

\* A public call and the exception it ended with, "" when it returned.
Called(op, error) == [op |-> op, raised |-> error # "", error |-> error]

\* SchedulerService.refresh_config(cfg) under the lock.
RefreshLocked(cfg, op) ==
    LET live == cfRunning /\ ~cfStopEvent
        st == Reschedule(cfg, cfNextRuns)
    IN /\ cfCached' = cfg
       /\ cfJobs' = IF live THEN st.jobs ELSE cfJobs
       /\ cfNextRuns' = IF live THEN st.next_runs ELSE cfNextRuns
       /\ cfCall' = Called(op, IF live /\ st.raised THEN "ValueError" ELSE "")
       /\ UNCHANGED <<cfRunning, cfStopEvent, cfScheduler, cfInFlight,
                      cfLastPoll, cfClock, cfPolls, cfSnap>>

\* SchedulerService.start().
StartService ==
    /\ IF cfRunning
       THEN /\ cfCall' = Called("start", "")
            /\ UNCHANGED <<cfRunning, cfStopEvent, cfScheduler, cfJobs, cfNextRuns>>
       ELSE LET st == ScheduleFromConfig(cfCached,
                          [jobs |-> {}, next_runs |-> cfNextRuns, raised |-> FALSE])
            IN /\ cfStopEvent' = FALSE
               /\ cfRunning' = TRUE
               /\ cfScheduler' = TRUE
               /\ cfJobs' = st.jobs
               /\ cfNextRuns' = st.next_runs
               /\ cfCall' = Called("start", IF st.raised THEN "ValueError" ELSE "")
    /\ UNCHANGED <<cfStored, cfCached, cfInFlight, cfLastPoll, cfClock, cfPolls,
                   cfSnap>>
    /\ UNCHANGED cfOthers

\* SchedulerService.stop().
StopService ==
    /\ IF ~cfRunning
       THEN UNCHANGED <<cfRunning, cfStopEvent, cfScheduler, cfJobs, cfNextRuns>>
       ELSE /\ cfStopEvent' = TRUE
            /\ cfNextRuns' = CancelNextRuns(cfNextRuns)
            /\ cfJobs' = {}
            /\ cfRunning' = FALSE
            /\ cfScheduler' = FALSE
    /\ cfCall' = Called("stop", "")
    /\ UNCHANGED <<cfStored, cfCached, cfInFlight, cfLastPoll, cfClock, cfPolls,
                   cfSnap>>
    /\ UNCHANGED cfOthers

\* SchedulerService.refresh_config(config) with a config of the caller's.
RefreshWith(cfg) ==
    /\ RefreshLocked(cfg, "refresh_config")
    /\ UNCHANGED cfStored
    /\ UNCHANGED cfOthers

\* StarlinkerBackend.patch_config(patch): apply_patch, then refresh_config.
PatchConfig(patch) ==
    LET current == cfStored
        merged == MergeDict(current, patch)
    IN /\ IF Validates(merged)
          THEN /\ cfStored' = merged
               /\ RefreshLocked(merged, "patch_config")
          ELSE /\ cfStored' = SavedOnFailure(current, merged)
               /\ cfCall' = Called("patch_config", "ValidationError")
               /\ UNCHANGED <<cfCached, cfRunning, cfStopEvent, cfScheduler,
                              cfJobs, cfNextRuns, cfInFlight, cfLastPoll, cfClock,
                              cfPolls, cfSnap>>
       /\ UNCHANGED cfOthers

\* HealthStatus.record_poll.
RecordPoll(reason) ==
    LET poll == [at |-> cfClock + 1, reason |-> reason]
    IN /\ cfClock' = cfClock + 1
       /\ cfLastPoll' = poll
       /\ cfPolls' = cfPolls \cup {poll}

\* The jobs _schedule_*_digest_locked register with _job_run_digest.
DigestJobs == {"digest_daily", "digest_weekly"}

\* The scheduler starts an execution of a job that is due. max_instances = 1:
\* never while an execution of that job has not ended.
Due(job) ==
    /\ cfScheduler
    /\ job \in cfJobs
    /\ job \notin cfInFlight
    /\ cfInFlight' = cfInFlight \cup {job}

\* _job_run_poll up to the record_poll of its pass.
FirePollJob(job) ==
    /\ Due(job)
    /\ cfClock < MaxPolls
    /\ IF cfStopEvent
       THEN UNCHANGED <<cfLastPoll, cfClock, cfPolls>>
       ELSE RecordPoll(JobReason(job))
    /\ UNCHANGED <<cfStored, cfCached, cfRunning, cfStopEvent, cfScheduler, cfJobs,
                   cfNextRuns, cfCall, cfSnap>>
    /\ UNCHANGED cfOthers

\* _job_run_digest: its pass records no poll.
FireDigestJob(job) ==
    /\ Due(job)
    /\ UNCHANGED <<cfStored, cfCached, cfRunning, cfStopEvent, cfScheduler, cfJobs,
                   cfNextRuns, cfLastPoll, cfClock, cfPolls, cfCall, cfSnap>>
    /\ UNCHANGED cfOthers

\* _on_job_event for an execution that ended.
OnJobEvent(job) ==
    /\ job \in cfInFlight
    /\ cfInFlight' = cfInFlight \ {job}
    /\ cfNextRuns' = IF cfScheduler /\ job \in cfJobs
                     THEN cfNextRuns \cup {job}
                     ELSE cfNextRuns \ {job}
    /\ UNCHANGED <<cfStored, cfCached, cfRunning, cfStopEvent, cfScheduler, cfJobs,
                   cfLastPoll, cfClock, cfPolls, cfCall, cfSnap>>
    /\ UNCHANGED cfOthers

\* trigger_poll("manual"), the pass run to its record_poll.
TriggerManualPoll ==
    /\ cfClock < MaxPolls
    /\ RecordPoll("manual")
    /\ UNCHANGED <<cfStored, cfCached, cfRunning, cfStopEvent, cfScheduler, cfJobs,
                   cfNextRuns, cfInFlight, cfCall, cfSnap>>
    /\ UNCHANGED cfOthers

\* describe(), first statement: self._health.snapshot() under the health lock.
DescribeHealth ==
    /\ cfSnap.pc # "health"
    /\ cfSnap' = [pc |-> "health", running |-> cfRunning,
                  last_poll |-> cfLastPoll, next_runs |-> {}]
    /\ UNCHANGED <<cfStored, cfCached, cfRunning, cfStopEvent, cfScheduler, cfJobs,
                   cfNextRuns, cfInFlight, cfLastPoll, cfClock, cfPolls, cfCall>>
    /\ UNCHANGED cfOthers

\* describe(), second statement: the copy of _next_runs under self._lock.
DescribeNextRuns ==
    /\ cfSnap.pc = "health"
    /\ cfSnap' = [cfSnap EXCEPT !.pc = "done", !.next_runs = cfNextRuns]
    /\ UNCHANGED <<cfStored, cfCached, cfRunning, cfStopEvent, cfScheduler, cfJobs,
                   cfNextRuns, cfInFlight, cfLastPoll, cfClock, cfPolls, cfCall>>
    /\ UNCHANGED cfOthers

\* StarlinkerBackend.__init__ returned: load() stored the defaults and
\* refresh_config cached them; the scheduler was not started.
InitConfig ==
    /\ cfStored = DefaultConfig
    /\ cfCached = DefaultConfig
    /\ cfRunning = FALSE
    /\ cfStopEvent = FALSE
    /\ cfScheduler = FALSE
    /\ cfJobs = {}
    /\ cfNextRuns = {}
    /\ cfInFlight = {}
    /\ cfLastPoll = NoPoll
    /\ cfClock = 0
    /\ cfPolls = {}
    /\ cfCall = Called("init", "")
    /\ cfSnap = NoSnapshot

\* The calls that change the settings and the life cycle, and the digest jobs.
NextConfig ==
    \/ StartService
    \/ StopService
    \/ \E cfg \in GivenConfigs : RefreshWith(cfg)
    \/ \E patch \in Patches : PatchConfig(patch)
    \/ \E job \in DigestJobs : FireDigestJob(job)
    \/ \E job \in JobIds : OnJobEvent(job)

\* The life cycle under the default settings, with describe() calls of
\* another thread in between.
NextHealth ==
    \/ StartService
    \/ StopService
    \/ \E job \in IntervalJobs : FirePollJob(job)
    \/ \E job \in DigestJobs : FireDigestJob(job)
    \/ \E job \in JobIds : OnJobEvent(job)
    \/ TriggerManualPoll
    \/ DescribeHealth
    \/ DescribeNextRuns

-----------------------------------------------------------------------------
(***************************************************************************)
(* DigestService (starlinker_news/alerts.py): run_digest and preview, one   *)
(* call at a time (run_digest holds the service's lock).                   *)
(***************************************************************************)

\* How many calls of the digest service a behaviour makes.
MaxDigestRuns == 2

DigestTypes == {"daily", "weekly"}

\* The types trigger_digest is called with: DigestRequest.type is any text.
TriggerTypes == DigestTypes \cup {"monthly"}

\* What fetch_signals(since) finds in the window: the ids of the signals.
WindowSignals == {{}, {1, 2}}

\* outputs.discord_webhook and outputs.email_to as sequences of characters.
WebhookTexts == {<<>>, <<" ">>, <<"h">>}

EmailTexts == {<<>>, <<"t">>}

\* What client.post does: it returns a response with a success status,
\* returns a response with an error status, or raises (transport error).
PostOutcomes == {"ok", "error_status", "raises"}

\* What mailer.send does.
SendOutcomes == {"ok", "raises"}

\* The text "".
EmptyText == [type |-> "-", date |-> 0, entries |-> {}, long |-> FALSE,
              cut |-> FALSE]

\* generate_digest_body: (body, signals); `long` tells whether the text is
\* longer than the 1800 characters Discord is sent.
GenerateDigestBody(type, at, signals, long) ==
    IF signals = {}
    THEN [text |-> EmptyText, signals |-> {}]
    ELSE [text |-> [type |-> type, date |-> at, entries |-> signals,
                    long |-> long, cut |-> FALSE],
          signals |-> signals]

\* body[:1800].
Content(text) == [text EXCEPT !.cut = text.long]

\* `await client.post(...)` inside try: delivered unless it raises; the
\* status of the response is not looked at.
PostDelivered(outcome) == outcome # "raises"

\* record_digest(digest_type, body_markdown = body, sent_at = triggered_at).
DigestRow(type, text, at) ==
    [sent_at |-> at, type |-> type, body_markdown |-> text]

NoDigestCall ==
    [op |-> "none", type |-> "-", at |-> 0, signals |-> {}, webhook |-> <<>>,
     email_to |-> <<>>, post |-> "-", send |-> "-", long |-> FALSE,
     posted |-> <<>>, mailed |-> <<>>, sent |-> FALSE, channels |-> <<>>,
     body |-> EmptyText, raised |-> FALSE]

\* DigestService.run_digest(type, config, triggered_at): _run_locked.
RunLocked(type, signals, webhook, email_to, post, send, long) ==
    LET at == dgRuns + 1
        body == GenerateDigestBody(type, at, signals, long)
        toDiscord == body.signals # {} /\ Strip(webhook) # <<>>
        toEmail == body.signals # {} /\ Strip(email_to) # <<>>
        channels == (IF toDiscord /\ PostDelivered(post) THEN <<"discord">> ELSE <<>>)
                    \o (IF toEmail /\ send = "ok" THEN <<"email">> ELSE <<>>)
        failures == (IF toDiscord /\ ~PostDelivered(post) THEN 1 ELSE 0)
                    + (IF toEmail /\ send # "ok" THEN 1 ELSE 0)
    IN /\ dgRuns < MaxDigestRuns
       /\ dgRuns' = at
       /\ dgErrors' = dgErrors + failures
       /\ dgDigests' = IF channels # <<>>
                       THEN Append(dgDigests, DigestRow(type, body.text, at))
                       ELSE dgDigests
       /\ dgCall' = [op |-> "run_digest", type |-> type, at |-> at,
                     signals |-> signals, webhook |-> webhook,
                     email_to |-> email_to, post |-> post, send |-> send,
                     long |-> long,
                     posted |-> IF toDiscord THEN <<Content(body.text)>> ELSE <<>>,
                     mailed |-> IF toEmail THEN <<body.text>> ELSE <<>>,
                     sent |-> channels # <<>>, channels |-> channels,
                     body |-> body.text, raised |-> FALSE]
       /\ UNCHANGED dgOthers

\* run_digest called on the service, as POST /run/digest of a build without
\* scheduler does and the tests do.
RunDigest(type, signals, webhook, email_to, post, send, long) ==
    /\ RunLocked(type, signals, webhook, email_to, post, send, long)
    /\ UNCHANGED dgLastDigests

\* self._health.record_digest(triggered_at, digest_type)
RecordDigest(type, at) == [dgLastDigests EXCEPT ![type] = at]

\* trigger_digest(type) and the _run_digest coroutine it submits: the digest
\* is recorded in the health state, then the service is called; the
\* ValueError of _window_for for an unsupported type is caught and written
\* to the errors table. trigger_digest itself returns the triggered_at and
\* the type.
TriggerDigest(type, signals, webhook, email_to, post, send, long) ==
    /\ dgLastDigests' = RecordDigest(type, dgRuns + 1)
    /\ IF type \in DigestTypes
       THEN RunLocked(type, signals, webhook, email_to, post, send, long)
       ELSE /\ dgRuns < MaxDigestRuns
            /\ dgRuns' = dgRuns + 1
            /\ dgErrors' = dgErrors + 1
            /\ dgCall' = [NoDigestCall EXCEPT !.op = "trigger_digest",
                                              !.type = type, !.at = dgRuns + 1,
                                              !.signals = signals,
                                              !.webhook = webhook,
                                              !.email_to = email_to]
            /\ UNCHANGED dgDigests
            /\ UNCHANGED dgOthers

\* preview(type, config, triggered_at).
Preview(type, signals, long) ==
    LET at == dgRuns + 1
        body == GenerateDigestBody(type, at, signals, long)
    IN /\ dgRuns < MaxDigestRuns
       /\ dgRuns' = at
       /\ dgCall' = [NoDigestCall EXCEPT !.op = "preview", !.type = type,
                                         !.at = at, !.signals = signals,
                                         !.long = long, !.body = body.text]
       /\ UNCHANGED <<dgDigests, dgErrors, dgLastDigests>>
       /\ UNCHANGED dgOthers

InitDigest ==
    /\ dgDigests = <<>>
    /\ dgErrors = 0
    /\ dgRuns = 0
    /\ dgCall = NoDigestCall
    /\ dgLastDigests = [type \in TriggerTypes |-> 0]

NextDigest ==
    \/ \E type \in DigestTypes, signals \in WindowSignals, webhook \in WebhookTexts,
          email_to \in EmailTexts, post \in PostOutcomes, send \in SendOutcomes,
          long \in BOOLEAN :
           RunDigest(type, signals, webhook, email_to, post, send, long)
    \/ \E type \in DigestTypes, signals \in WindowSignals, long \in BOOLEAN :
           Preview(type, signals, long)
    \/ \E type \in TriggerTypes, signals \in WindowSignals,
          webhook \in WebhookTexts, email_to \in EmailTexts,
          post \in PostOutcomes, send \in SendOutcomes :
           TriggerDigest(type, signals, webhook, email_to, post, send, FALSE)

-----------------------------------------------------------------------------
(***************************************************************************)
(* RSIPatchNotesIngest._normalize_item (ingest/rsi_patch_notes.py) as a    *)
(* function of an item of the payload and the channel it was fetched for.  *)
(* Texts are sequences of characters; the scheme and the origin of a URL   *)
(* are one element each.                                                   *)
(***************************************************************************)

\* The value of a key the item does not have.
Absent == <<>>

\* "LIVE Hotfix", "Critical fix", " Patch" and a missing title.
ItemTitles ==
    {<<"L", "I", "V", "E", " ", "H", "o", "t", "f", "i", "x">>,
     <<"C", "r", "i", "t", "i", "c", "a", "l", " ", "f", "i", "x">>,
     <<" ", "P", "a", "t", "c", "h">>,
     Absent}

\* "/a", "a", "https://x", " " and a missing url.
ItemUrls == {<<"/", "a">>, <<"a">>, <<"https://", "x">>, <<" ">>, Absent}

\* The channel key of the item.
ItemChannels == {<<"L", "I", "V", "E">>, <<"P", "T", "U">>, <<"E", "V", "O">>, Absent}

\* The channels run() fetches.
Channels == {<<"L", "I", "V", "E">>, <<"P", "T", "U">>}

\* The excerpt, snippet and brief keys of the item.
ItemExcerpts == {<<" ", "n">>, Absent}

\* `item.get("title") or "Patch Notes"`.
PatchNotesTitle == <<"P", "a", "t", "c", "h", " ", "N", "o", "t", "e", "s">>

\* _build_url.
BuildUrl(value) ==
    LET raw == Strip(value)
    IN IF raw # <<>> /\ Head(raw) \in {"http://", "https://"} THEN raw
       ELSE <<"https://robertsspaceindustries.com">>
            \o (IF raw = <<>> THEN <<"/">>
                ELSE IF Head(raw) # "/" THEN <<"/">> \o raw
                ELSE raw)

\* The tags of the signal: the channel of the fetch and, when it is another
\* one, the channel the item names.
ItemTags(item, channel) ==
    LET tags == <<<<"r", "s", "i">>,
                  <<"p", "a", "t", "c", "h", "-", "n", "o", "t", "e", "s">>,
                  Lower(channel)>>
    IN IF item.channel # Absent
          /\ \A i \in DOMAIN tags : tags[i] # Lower(item.channel)
       THEN Append(tags, Lower(item.channel))
       ELSE tags

\* NormalizedSignal.priority when the constructor is not given one.
DefaultPriority == 0

\* _normalize_item(item, channel = channel, fetched_at = ..): the signal,
\* without its timestamps.
NormalizeItem(item, channel) ==
    [source |-> <<"rsi.patch_notes.">> \o Lower(channel),
     title |-> Strip(IF item.title # Absent THEN item.title ELSE PatchNotesTitle),
     url |-> BuildUrl(item.url),
     raw_excerpt |-> IF item.excerpt # Absent THEN Strip(item.excerpt) ELSE Absent,
     tags |-> ItemTags(item, channel),
     priority |-> DefaultPriority]

NoNormalizeCall ==
    [op |-> "none", channel |-> Absent,
     item |-> [title |-> Absent, url |-> Absent, channel |-> Absent,
               excerpt |-> Absent],
     signal |-> [source |-> Absent, title |-> Absent, url |-> Absent,
                 raw_excerpt |-> Absent, tags |-> <<>>, priority |-> 0]]

\* One call of _normalize_item.
NormalizeCall(item, channel) ==
    /\ pnCall' = [op |-> "_normalize_item", channel |-> channel, item |-> item,
                  signal |-> NormalizeItem(item, channel)]
    /\ UNCHANGED pnOthers

InitNotes == pnCall = NoNormalizeCall

NextNotes ==
    \E title \in ItemTitles, url \in ItemUrls, named \in ItemChannels,
       excerpt \in ItemExcerpts, channel \in Channels :
        NormalizeCall([title |-> title, url |-> url, channel |-> named,
                       excerpt |-> excerpt], channel)

-----------------------------------------------------------------------------
(***************************************************************************)
(* ForgeRuntime (runtime.py): start and stop over the loader and the       *)
(* registry the runtime owns. The hooks of the modules return; every       *)
(* module provides its capabilities at a version of its own (a 1.0, b 2.0, *)
(* c 3.0), so that the providers of one name differ in version within one  *)
(* start.                                                                  *)
(***************************************************************************)

\* The start and stop calls of a behaviour.
MaxCalls == 3

\* The version in the provides entries of a module's manifest.
ModuleRelease(n) == <<NameRank(n), 0>>

\* manifest.get("provides", []) in the order of the manifest.
CapOrder == <<"x", "y">>

\* cls(): the instance the load_all of call number `call` makes of module n,
\* a plain object that equals itself only.
Instance(n, call) ==
    [kind |-> "object", id |-> NameRank(n),
     ref |-> Len(ModuleNames) * (call - 1) + NameRank(n)]

\* registry.bind(cap, instance) for the provides of one module, up to the
\* bind whose sort raises TypeError.
RECURSIVE BindEach(_, _, _, _)
BindEach(reg, caps, ver, obj) ==
    IF caps = <<>> \/ reg.raised THEN reg
    ELSE LET prov == [version |-> ver, obj |-> obj, order |-> reg.counter]
             appended == Append(reg.providers[Head(caps)], prov)
         IN BindEach([reg EXCEPT
                         !.providers[Head(caps)] =
                             IF SortRaises(appended) THEN appended
                             ELSE Sort(appended),
                         !.counter = @ + 1,
                         !.raised = SortRaises(appended)],
                     Tail(caps), ver, obj)

\* The loop of load_all: the module is instantiated, its on_load called, its
\* state stored in self.modules and its provides bound.
RECURSIVE LoadEach(_, _, _)
LoadEach(reg, names, call) ==
    IF names = <<>> \/ reg.raised THEN reg
    ELSE LET n == Head(names) IN
         LoadEach(BindEach([reg EXCEPT !.loaded = Append(@, n)],
                           SeqFilter(CapOrder, ldManifests[n].provides),
                           ModuleRelease(n), Instance(n, call)),
                  Tail(names), call)

RuntimeCalled(op, raised) ==
    rtHistory' = Append(rtHistory, [op |-> op, raised |-> raised])

\* What a start or stop that raised or did nothing leaves of the loader.
LoaderKept ==
    UNCHANGED <<ldModules, ldEnabled, ldEnableOrder, ldCall, ldHookLog,
                ldActive, ldActiveAtCall, ldLoad>>

\* start(): load_all, enable_all, started = True; nothing when started.
RuntimeStart(listing) ==
    /\ Len(rtHistory) < MaxCalls
    /\ IF rtStarted
       THEN /\ RuntimeCalled("start", FALSE)
            /\ LoaderKept
            /\ UNCHANGED <<rtStarted, rtProviders, rtCounter>>
       ELSE IF LoadSequence(listing) = CircularDependency
       THEN /\ RuntimeCalled("start", TRUE)
            /\ LoaderKept
            /\ UNCHANGED <<rtStarted, rtProviders, rtCounter>>
       ELSE LET reg == LoadEach([providers |-> rtProviders, counter |-> rtCounter,
                                 raised |-> FALSE, loaded |-> <<>>],
                                LoadSequence(listing), Len(rtHistory) + 1)
                modules == ldModules \o
                              SeqFilter(reg.loaded, Modules \ SeqRange(ldModules))
                fresh == [enabled |-> ldEnabled \ SeqRange(reg.loaded),
                          order |-> ldEnableOrder, log |-> <<>>,
                          active |-> SeqFilter(ldActive,
                                               Modules \ SeqRange(reg.loaded)),
                          raised |-> FALSE]
                circular == ~reg.raised /\ DependencyOrder(modules) = CircularDependency
                st == IF reg.raised \/ circular THEN fresh
                      ELSE EnableEach(fresh, DependencyOrder(modules), NoModule)
            IN /\ RuntimeCalled("start", reg.raised \/ circular)
               /\ rtStarted' = ~(reg.raised \/ circular)
               /\ rtProviders' = reg.providers
               /\ rtCounter' = reg.counter
               /\ ldModules' = modules
               /\ ldEnabled' = st.enabled
               /\ ldEnableOrder' = st.order
               /\ ldActive' = st.active
               /\ ldHookLog' = st.log
               /\ ldCall' = IF reg.raised THEN NoCall
                            ELSE [op |-> "enable_all", raised |-> circular]
               /\ ldActiveAtCall' = <<>>
               /\ ldLoad' = [NoLoad EXCEPT
                                !.bound = ldLoad.bound
                                          \cup BoundBy(reg.loaded, Len(reg.loaded))]
    /\ UNCHANGED ldManifests
    /\ UNCHANGED rtOthers

\* stop(): disable_all, started = False; nothing when not started.
RuntimeStop ==
    /\ Len(rtHistory) < MaxCalls
    /\ RuntimeCalled("stop", FALSE)
    /\ IF ~rtStarted
       THEN /\ LoaderKept
            /\ UNCHANGED rtStarted
       ELSE LET st == DisableEach(LoaderState, SeqReverse(ldEnableOrder), NoModule)
            IN /\ rtStarted' = FALSE
               /\ ldEnabled' = st.enabled
               /\ ldEnableOrder' = <<>>
               /\ ldActive' = st.active
               /\ ldHookLog' = st.log
               /\ ldCall' = [op |-> "disable_all", raised |-> FALSE]
               /\ ldActiveAtCall' = ldActive
               /\ ldLoad' = [NoLoad EXCEPT !.bound = ldLoad.bound]
               /\ UNCHANGED ldModules
    /\ UNCHANGED <<ldManifests, rtProviders, rtCounter>>
    /\ UNCHANGED rtOthers

InitRuntime ==
    /\ rtStarted = FALSE
    /\ rtProviders = [cap \in Caps |-> <<>>]
    /\ rtCounter = 0
    /\ rtHistory = <<>>

\* The components that came last, in a specification about another one.
IdleRest == InitRuntime

NextRuntime ==
    \/ \E listing \in Permutations3 : RuntimeStart(listing)
    \/ RuntimeStop

-----------------------------------------------------------------------------
(***************************************************************************)
(* Specifications                                                          *)
(***************************************************************************)

\* No single function is being called.
IdleCalls == IdleQuiet /\ InitIngest /\ InitBus /\ InitCaps /\ InitConfig /\ InitDigest /\ InitNotes /\ IdleRest

\* The four subsystems right after construction.
IdleSystems == InitKV /\ IdleLoader /\ IdleNews /\ InitSched

\* The storage manager alone, its clients running concurrently.
InitStorage == InitKV /\ IdleLoader /\ IdleNews /\ InitSched /\ IdleCalls

SpecKV == InitStorage /\ [][NextKV]_vars

\* The storage manager alone, one call at a time.
SpecKVSeq == InitStorage /\ [][NextKVSeq]_vars

\* The module loader alone, over every directory of module kinds.
InitModules == InitLoader /\ InitKV /\ IdleNews /\ InitSched /\ IdleCalls

SpecLoader == InitModules /\ [][NextLoader]_vars

\* The database and the alerts service, calls run one after another.
InitStarlinker == InitNews /\ InitKV /\ IdleLoader /\ InitSched /\ IdleCalls

SpecNews == InitStarlinker /\ [][NextNews]_vars

\* The scheduler with its callers, its background loop and the ingest gate.
InitScheduler == InitSched /\ InitKV /\ IdleLoader /\ IdleNews /\ IdleCalls

SpecSched == InitScheduler /\ [][NextSched]_vars

\* A caller thread inside a call goes on when it can.
CallerContinues(c) ==
    \/ AddJob(c)
    \/ AddWait(c)
    \/ StopWait(c)
    \/ RefreshWait(c)
    \/ AsyncioRunReturn(c)

\* Threads keep running: the background loop runs a callback or a coroutine
\* that is ready, the loop of an asyncio.run runs its coroutine, and a caller
\* inside a call goes on. Nothing obliges a caller to make a call.
FairSched ==
    /\ WF_vars(LoopStep)
    /\ \A t \in 1..MaxClock : WF_vars(PassStep(t))
    /\ \A c \in Callers : WF_vars(CallerContinues(c))

SpecSchedFair == InitScheduler /\ [][NextSched]_vars /\ FairSched

\* _in_quiet_hours over windows and times of day.
InitQuietHours == InitQuiet /\ IdleSystems /\ InitIngest /\ InitBus /\ InitCaps /\ InitConfig /\ InitDigest /\ InitNotes /\ IdleRest

SpecQuiet == InitQuietHours /\ [][NextQuiet]_vars

\* Poll passes over an initialized database.
InitPolls == InitIngest /\ IdleSystems /\ IdleQuiet /\ InitBus /\ InitCaps /\ InitConfig /\ InitDigest /\ InitNotes /\ IdleRest

SpecIngest == InitPolls /\ [][NextIngest]_vars

\* An event bus right after construction.
InitEvents == InitBus /\ IdleSystems /\ IdleQuiet /\ InitIngest /\ InitCaps /\ InitConfig /\ InitDigest /\ InitNotes /\ IdleRest

SpecBus == InitEvents /\ [][NextBus]_vars

InitReentrant == InitBus /\ IdleSystems /\ IdleQuiet /\ InitIngest /\ InitCaps /\ InitConfig /\ InitDigest /\ InitNotes /\ IdleRest

SpecReentrant == InitReentrant /\ [][NextReentrant]_vars

\* The release callbacks of subscribe.
SpecRelease == InitEvents /\ [][NextRelease]_vars

\* A capability registry right after construction.
InitRegistry == InitCaps /\ IdleSystems /\ IdleQuiet /\ InitIngest /\ InitBus /\ InitConfig /\ InitDigest /\ InitNotes /\ IdleRest

SpecCaps == InitRegistry /\ [][NextCaps]_vars

\* The backend after construction: settings, scheduler life cycle, describe.
InitBackend ==
    InitConfig /\ IdleSystems /\ IdleQuiet /\ InitIngest /\ InitBus /\ InitCaps
    /\ InitDigest /\ InitNotes /\ IdleRest

SpecConfig == InitBackend /\ [][NextConfig]_vars

\* The same backend, its settings left alone, observed through describe().
SpecHealth == InitBackend /\ [][NextHealth]_vars

\* The digest service over an empty table digests.
InitDigests ==
    InitDigest /\ IdleSystems /\ IdleQuiet /\ InitIngest /\ InitBus /\ InitCaps
    /\ InitConfig /\ InitNotes /\ IdleRest

SpecDigest == InitDigests /\ [][NextDigest]_vars

\* Binds and unbinds of equal and of identical providers.
NextUnbind ==
    \/ \E name \in CapNames, ver \in TwinReleases, provider \in TwinObjects :
          Bind(name, ver, provider)
    \/ \E name \in CapNames, ver \in TwinReleases, provider \in TwinObjects :
          Unbind(name, ver, provider)

SpecUnbind == InitRegistry /\ [][NextUnbind]_vars

\* _normalize_item over items and channels.
InitPatchNotes ==
    InitNotes /\ IdleSystems /\ IdleQuiet /\ InitIngest /\ InitBus /\ InitCaps
    /\ InitConfig /\ InitDigest /\ IdleRest

SpecNotes == InitPatchNotes /\ [][NextNotes]_vars

\* A runtime over a directory of modules: start and stop calls.
SpecRuntime == InitModules /\ [][NextRuntime]_vars

-----------------------------------------------------------------------------
(***************************************************************************)
(* Claims about StorageManager                                             *)
(***************************************************************************)

\* C6: a load that runs concurrently with stores (and with no delete) returns
\* the value committed when it began or the value of a store that replaced
\* the file while it ran; it never sees a partly written or empty file.
C6_LoadSeesWholeValue ==
    \A p \in KVProcs :
        (kvPc[p] = "load_done" /\ ~kvDelDuring[p]) =>
            /\ kvResult[p] # JSONDecodeError
            /\ kvResult[p] \in kvLoadMay[p]

\* A load returned a value although a store of another client replaced the
\* file between the load's existence check and its read.
C6_Witness ==
    \E p \in KVProcs :
        /\ kvPc[p] = "load_done"
        /\ ~kvDelDuring[p]
        /\ Cardinality(kvLoadMay[p]) > 1
        /\ kvResult[p] \in KVValues

\* C7: in a sequential history a load returns the value of the most recent
\* store, or the default when the key was never stored or was deleted last.
C7_LoadReturnsLastStore ==
    \A p \in KVProcs : kvPc[p] = "load_done" => kvResult[p] = kvCommitted

\* A load returned the value of a second store that overwrote a first one.
C7_Witness ==
    \E p \in KVProcs :
        /\ kvPc[p] = "load_done"
        /\ kvResult[p] \in KVValues
        /\ Cardinality(DOMAIN kvInodes) >= 2
        /\ kvResult[p] # JsonLoad(kvInodes[1])

\* The modules the last enable_all call enabled itself.
EnabledByCall ==
    {n \in ldEnabled : <<"on_enable", n>> \in SeqRange(ldHookLog)}

\* The provider that the loader's dict order registers last for a capability.
LastProvider(cap) ==
    LET ps == {i \in DOMAIN ldModules : cap \in ldManifests[ldModules[i]].provides}
    IN IF ps = {} THEN NoModule ELSE ldModules[CHOOSE i \in ps : \A j \in ps : j <= i]

\* C4 as stated: after enable_all, for every pair of modules (A, B) it
\* enabled where A requires a capability that B provides, B appears before A
\* in enable_order, also when several modules provide the capability.
C4_EveryProviderFirst ==
    ldCall.op = "enable_all" =>
        \A A \in EnabledByCall : \A B \in EnabledByCall \ {A} :
            ldManifests[A].requires \cap ldManifests[B].provides # {} =>
                LastIndex(ldEnableOrder, B) < LastIndex(ldEnableOrder, A)

\* C4, amended: after enable_all, for every pair of modules (A, B) it enabled
\* where A requires a capability whose provider registered last in the
\* loader's dict order is B (the only provider, when the name is provided
\* once), B appears before A in enable_order.
C4_RegisteredProviderFirst ==
    ldCall.op = "enable_all" =>
        \A A \in EnabledByCall : \A B \in EnabledByCall \ {A} :
            (\E cap \in ldManifests[A].requires : LastProvider(cap) = B) =>
                LastIndex(ldEnableOrder, B) < LastIndex(ldEnableOrder, A)

\* enable_all put a provider in front of a consumer whose name sorts first.
C4_Witness ==
    /\ ldCall = [op |-> "enable_all", raised |-> FALSE]
    /\ \E A \in EnabledByCall : \E B \in EnabledByCall \ {A} :
          /\ \E cap \in ldManifests[A].requires : LastProvider(cap) = B
          /\ NameRank(A) < NameRank(B)
          /\ LastIndex(ldEnableOrder, B) < LastIndex(ldEnableOrder, A)

\* The modules on_disable was invoked on by the last disable_all, in order.
DisableLog == [i \in DOMAIN ldHookLog |-> ldHookLog[i][2]]

\* The modules that were enabled when disable_all was called and define
\* on_disable, latest enabled first.
ReverseOfActual ==
    SeqFilter(
        [i \in DOMAIN ldActiveAtCall |->
            ldActiveAtCall[Len(ldActiveAtCall) + 1 - i]],
        {n \in Modules : ldManifests[n].on_disable})

\* C5: disable_all invokes on_disable on the enabled modules in exactly the
\* reverse of the order in which they were actually enabled, whatever mix of
\* enable_all and enable_module enabled them: the invocations of a call are
\* the reverse of that order, up to the hook that raised if one did.
C5_DisableReversesActualOrder ==
    ldCall.op = "disable_all" =>
        /\ Len(DisableLog) <= Len(ReverseOfActual)
        /\ DisableLog = SubSeq(ReverseOfActual, 1, Len(DisableLog))
        /\ ~ldCall.raised => DisableLog = ReverseOfActual

\* disable_all ran the hooks of two modules that enable_module had enabled
\* consumer first, provider second.
C5_Witness ==
    /\ ldCall = [op |-> "disable_all", raised |-> FALSE]
    /\ Len(DisableLog) >= 2
    /\ \E i, j \in DOMAIN ldActiveAtCall :
          /\ i < j
          /\ ldManifests[ldActiveAtCall[i]].requires
                 \cap ldManifests[ldActiveAtCall[j]].provides # {}
          /\ ldManifests[ldActiveAtCall[i]].on_disable
          /\ ldManifests[ldActiveAtCall[j]].on_disable
          /\ ldActiveAtCall[i] # ldActiveAtCall[j]

\* C1 as stated: the alerts table holds at most one row per dedup_key,
\* whatever signals are stored and however often AlertsService.run is called.
C1_OneAlertPerDedupKey ==
    \A i, j \in DOMAIN nwAlerts :
        nwAlerts[i].dedup_key = nwAlerts[j].dedup_key => i = j

\* C2: no two rows of the signals table share a URL, after any store_signals
\* calls with any batches; a batch of several signals with one URL that was
\* not stored before adds exactly one row.
C2_UniqueSignalUrl ==
    /\ \A i, j \in DOMAIN nwSignals :
          nwSignals[i].url = nwSignals[j].url => i = j
    /\ nwStore.n >= 2 /\ Cardinality(nwStore.urls) = 1 => nwStore.inserted <= 1

\* store_signals returned after a batch of two or more signals with one and
\* the same URL: the table got one row for it.
C2_Witness ==
    /\ nwStore.pc = "done"
    /\ nwStore.n >= 2
    /\ nwStore.inserted = 1
    /\ \E u \in nwStore.urls :
          /\ nwStore.urls = {u}
          /\ Cardinality({i \in DOMAIN nwSignals : nwSignals[i].url = u}) = 1

\* Passes that are inside _run_modules in a thread that is running.
ExecutingModules ==
    {t \in 1..MaxClock :
        /\ psPasses[t].pc = "modules"
        /\ \/ psPasses[t].loop.kind = "run"
           \/ scAlive = psPasses[t].loop.n}

\* C3 as stated: at any moment at most one run_poll pass is executing ingest
\* modules, for every interleaving of scheduled firings and manual
\* trigger_poll calls, whether the scheduler is running or stopped.
C3_OnePassInModules == Cardinality(ExecutingModules) <= 1

\* A start() call that found the scheduler running returned in this step.
StartOnRunning ==
    /\ scRunning
    /\ scLastCall' = [op |-> "start", effect |-> FALSE]
    /\ scLastCall' # scLastCall

\* C8: start() on a running scheduler creates no second background loop,
\* registers no job again and leaves next_runs as it was; once stop() has
\* returned, running is false and next_runs is empty for describe(), which
\* reads next_runs under the lock.
C8_StartIdempotentStopClears ==
    /\ [][StartOnRunning =>
             UNCHANGED <<scRunning, scStopEvent, scLoopVars, scCallback,
                         scJobVars, scLock>>]_vars
    /\ [](scLastCall.op = "stop" /\ scLock = "free"
             => ~scRunning /\ scNextRuns = {})

\* stop() returned on a scheduler that start() had started and whose
\* priority_poll job had run a pass; the background loop has not yet ended.
C8_Witness ==
    /\ scLastCall = [op |-> "stop", effect |-> TRUE]
    /\ scLock = "free"
    /\ scLoops = 1
    /\ scAlive = 1
    /\ scLastPoll.reason = "schedule:priority"
    /\ ~scRunning
    /\ scNextRuns = {}

\* C9 as stated: trigger_poll returns without waiting for the pass, in every
\* scheduler state: no caller is ever inside trigger_poll waiting for the
\* pass it created.
C9_TriggerNeverWaits == \A c \in Callers : clPc[c] # "asyncio_run"

\* A manual pass handed to the background loop of a running scheduler.
TriggeredWhileRunning(t) ==
    /\ psPasses[t].pc = "submitted"
    /\ psPasses[t].job = "-"
    /\ psPasses[t].loop.kind = "sched"
    /\ scRunning
    /\ ~scStopEvent

\* C10 as stated: every trigger_poll(r) issued while the scheduler is running
\* leads to the health state recording last_poll = triggered_at and
\* last_poll_reason = r and to the run_poll call with them, unless the
\* scheduler is stopped first.
C10_TriggerLeadsToPoll ==
    \A t \in 1..MaxClock :
        TriggeredWhileRunning(t)
            ~> \/ /\ scLastPoll = [at |-> t, reason |-> psPasses[t].reason]
                  /\ t \in psCalled
               \/ scStopEvent
               \/ ~scRunning

\* C11 as stated: a run under a snooze returns {alerts: 0, suppressed: true}
\* and attempts no send and records no alert, inside or outside the quiet
\* hours, with or without candidates.
C11_SnoozeSuppresses ==
    nwRun.pc # "idle" /\ nwRun.snoozed
        => /\ nwRun.pc = "done"
           /\ nwRun.suppressed
           /\ nwRun.alerts = 0
           /\ nwRun.posts = 0

\* Minutes since midnight of a local time and of an "HH:MM" text.
MinuteOfDay(t) == 60 * t.hour + t.minute

TextMinute(text) == 600 * IntOf(<<text[1]>>) + 60 * IntOf(<<text[2]>>)
                    + 10 * IntOf(<<text[4]>>) + IntOf(<<text[5]>>)

\* The quiet hours as the documentation states them, for a window from
\* minute s to minute e of the day.
InsideQuietHours(s, e, now) == IF s <= e THEN s <= now /\ now < e
                               ELSE now >= s \/ now < e

\* An AlertsService.run call that found candidates begins in this step, at a
\* moment inside the quiet hours of the config.
RunInsideQuietHours ==
    /\ nwRun.pc # "dispatch"
    /\ nwRun'.pc # "idle"
    /\ nwRun'.found > 0
    /\ InsideQuietHours(TextMinute(nwConfig.quiet_hours[1]),
                        TextMinute(nwConfig.quiet_hours[2]),
                        MinuteOfDay(nwRun'.now))

\* C12: a run inside the quiet hours with a candidate above the threshold
\* returns {alerts: 0, suppressed: true} at once and changes nothing: no
\* alert row, no error row, no send on any channel.
C12_QuietHoursSuppress ==
    [][RunInsideQuietHours =>
          /\ nwRun'.pc = "done"
          /\ nwRun'.suppressed
          /\ nwRun'.alerts = 0
          /\ nwRun'.posts = 0
          /\ nwNewErrors' = <<>>
          /\ UNCHANGED <<nwSignals, nwAlerts>>]_vars

\* A run at 23:30 with quiet hours from 23:00 to 07:00 found a candidate and
\* returned suppressed.
C12_Witness ==
    /\ nwRun.pc = "done"
    /\ nwRun.suppressed
    /\ nwRun.found > 0
    /\ nwRun.now = Time(23, 30)
    /\ nwConfig.quiet_hours = <<Text(2, 3, 0, 0), Text(0, 7, 0, 0)>>
    /\ nwConfig.email_to
    /\ nwAlerts = <<>>

\* C13: for every window (s, e) and every local time now, _in_quiet_hours
\* says quiet iff s <= now < e when s <= e, and iff now >= s or now < e when
\* the window wraps midnight; with 23:00-07:00, 23:30 and 06:59 are quiet and
\* 08:00 is not.
C13_QuietHoursWindow ==
    qhCall.pc = "done" =>
        /\ qhCall.result
              = InsideQuietHours(TextMinute(qhCall.quiet_hours[1]),
                                 TextMinute(qhCall.quiet_hours[2]),
                                 MinuteOfDay(qhCall.now))
        /\ qhCall.quiet_hours = <<Text(2, 3, 0, 0), Text(0, 7, 0, 0)>> =>
              /\ qhCall.now \in {Time(23, 30), Time(6, 59)} => qhCall.result
              /\ qhCall.now = Time(8, 0) => ~qhCall.result

\* The call for 06:59 with the window 23:00-07:00 returned quiet.
C13_Witness ==
    /\ qhCall.pc = "done"
    /\ qhCall.quiet_hours = <<Text(2, 3, 0, 0), Text(0, 7, 0, 0)>>
    /\ qhCall.now = Time(6, 59)
    /\ qhCall.result

\* One round of the dispatch loop is made in this step.
DispatchRound ==
    /\ nwRun.pc = "dispatch"
    /\ nwRun.candidates # <<>>
    /\ nwRun'.candidates = Tail(nwRun.candidates)

\* The configured channels that accepted / refused the candidate of the round.
Succeeded(o) == {ch \in {"discord", "email"} :
                    \/ ch = "discord" /\ nwConfig.discord_webhook /\ o.discord
                    \/ ch = "email" /\ nwConfig.email_to /\ o.email}

Refused(o) == {ch \in {"discord", "email"} :
                  \/ ch = "discord" /\ nwConfig.discord_webhook /\ ~o.discord
                  \/ ch = "email" /\ nwConfig.email_to /\ ~o.email}

\* C14: in every round of the dispatch loop each configured channel is
\* attempted whatever the other did, each channel that failed leaves exactly
\* one error row tagged with it, and an alert row is recorded for the
\* candidate iff some channel succeeded, listing exactly those channels.
C14_ChannelFailuresIsolated ==
    [][DispatchRound =>
          LET o == nwRun'.outcome IN
          /\ nwRun'.posts - nwRun.posts = Cardinality(Succeeded(o) \cup Refused(o))
          /\ SeqRange(nwNewErrors') = Refused(o)
          /\ Len(nwNewErrors') = Cardinality(Refused(o))
          /\ IF Succeeded(o) = {}
             THEN nwAlerts' = nwAlerts /\ nwRun'.alerts = nwRun.alerts
             ELSE /\ Len(nwAlerts') = Len(nwAlerts) + 1
                  /\ SubSeq(nwAlerts', 1, Len(nwAlerts)) = nwAlerts
                  /\ nwAlerts'[Len(nwAlerts')].url = Head(nwRun.candidates).url
                  /\ SeqRange(nwAlerts'[Len(nwAlerts')].delivered_channels)
                        = Succeeded(o)
                  /\ nwRun'.alerts = nwRun.alerts + 1]_vars

\* A round in which the webhook raised and the email went out: one error row
\* for discord and an alert row that lists email only.
C14_Witness ==
    /\ nwRun.pc = "dispatch"
    /\ nwConfig.discord_webhook /\ nwConfig.email_to
    /\ nwRun.outcome = [discord |-> FALSE, email |-> TRUE]
    /\ nwNewErrors = <<"discord">>
    /\ nwAlerts # <<>>
    /\ nwAlerts[Len(nwAlerts)].delivered_channels = <<"email">>

\* The error rows the pass wrote for the module at position i.
ErrorRowsOf(i) ==
    {k \in DOMAIN inNewErrors : inNewErrors[k].module = IngestModules[i]}

\* The module at position j was reached by the loop, and what it returned is
\* in table signals and in the summary.
RanAndStored(j) ==
    /\ inPass.did[j].kind # "none"
    /\ inPass.did[j].kind = "ran" =>
          /\ inPass.summary[j].present
          /\ inPass.summary[j].fetched = Len(inPass.did[j].signals)
          /\ \A k \in DOMAIN inPass.did[j].signals :
                \E r \in DOMAIN nwSignals :
                    nwSignals[r].url = inPass.did[j].signals[k].url

\* C15: in one pass a module whose run raises leaves exactly one error row,
\* with its name and the reason of the pass, and no summary entry; the pass
\* goes on, and once it has returned every module registered after the
\* raising one was reached, its signals stored and its summary entry written.
C15_RaisingModuleIsolated ==
    \A i \in DOMAIN IngestModules :
        inPass.did[i].kind = "raised" =>
            /\ Cardinality(ErrorRowsOf(i)) = 1
            /\ \A k \in ErrorRowsOf(i) : inNewErrors[k].reason = inPass.reason
            /\ ~inPass.summary[i].present
            /\ inPass.pc = "done" =>
                  \A j \in DOMAIN IngestModules : j > i => RanAndStored(j)

\* A pass has returned in which the first module raised and the second one
\* returned signals.
C15_Witness ==
    /\ inPass.pc = "done"
    /\ inPass.did[1].kind = "raised"
    /\ inPass.did[2].kind = "ran"
    /\ inPass.did[2].signals # <<>>
    /\ inPass.summary[2].stored > 0

\* The step in which the module at position i returns its signals and
\* store_signals is called with them.
StoresBatchOf(i) ==
    /\ inPass.pc = "modules"
    /\ inPass.idx = i
    /\ inPass'.did[i].kind = "ran"

\* The URLs of a list of signals.
UrlsOf(signals) == {signals[k].url : k \in DOMAIN signals}

\* C16: the count store_signals returns is the number of rows the call added
\* to table signals, which is the number of URLs of the batch that were not
\* stored before: a signal whose URL is stored, or was given earlier in the
\* batch, adds nothing to the count, and a batch of stored URLs returns 0.
C16_StoredCountsAddedRows ==
    [][\A i \in DOMAIN IngestModules :
          StoresBatchOf(i) =>
              LET batch == inPass'.did[i].signals
                  stored == inPass'.summary[i].stored
              IN /\ stored = Len(nwSignals') - Len(nwSignals)
                 /\ stored = Cardinality(UrlsOf(batch) \ UrlsOf(nwSignals))
                 /\ UrlsOf(batch) \subseteq UrlsOf(nwSignals) => stored = 0
                 /\ \A k \in 1..Len(nwSignals) : nwSignals'[k] = nwSignals[k]]_vars

\* The second pass has returned: its first module gave the two signals it
\* gave in the first pass, which stored them, and 0 were stored this time.
C16_Witness ==
    /\ inPasses = 2
    /\ inPass.pc = "done"
    /\ inPass.did[1].kind = "ran"
    /\ Len(inPass.did[1].signals) = 2
    /\ inPass.summary[1].fetched = 2
    /\ inPass.summary[1].stored = 0
    /\ Len(nwSignals) = 2
    /\ \A k \in 1..2 : nwSignals[k] = inPass.did[1].signals[k]

\* The handlers of the calls a publish made so far, in the order of the calls.
Invoked == [k \in DOMAIN ebPub.calls |-> ebPub.calls[k].handler]

\* C17: publish calls the handlers that were subscribed to its topic when it
\* was called, in subscription order; a handler that raises is followed by
\* the call of the next one, and publish returns with every one of them
\* called, whichever of them raised.
C17_PublishReachesAllHandlers ==
    /\ ebPub.pc \in {"deliver", "done"} =>
          /\ Len(Invoked) <= Len(ebPub.subscribed)
          /\ Invoked = SubSeq(ebPub.subscribed, 1, Len(Invoked))
          /\ ebPub.pc = "deliver" => ebPub.idx = Len(Invoked) + 1
    /\ ebPub.pc = "done" => Invoked = ebPub.subscribed

\* publish has returned: the first of the three handlers of the topic raised
\* and the two subscribed after it were called.
C17_Witness ==
    /\ ebPub.pc = "done"
    /\ Len(ebPub.subscribed) = 3
    /\ Len(ebPub.calls) = 3
    /\ ebPub.calls[1].raised
    /\ ebPub.calls[2].handler # ebPub.calls[1].handler

\* What a query asks of a version.
Satisfies(spec, ver) ==
    CASE spec.kind \in {"bare", "empty"} -> TRUE
      [] spec.kind = "exact" -> VersionEq(ver, spec.ver)
      [] spec.kind = "caret" ->
            /\ ~VersionLess(ver, spec.ver)
            /\ VersionLess(ver, <<spec.ver[1] + 1, 0>>)
      [] spec.kind = "range" -> InSpecifierSet(ver, spec.clauses)

\* The positions, in the list of a name, of the providers a query admits, of
\* those among them with the greatest version, and of the one of these that
\* was bound first.
Admitted(name, spec) ==
    {i \in DOMAIN cpProviders[name] :
        Satisfies(spec, cpProviders[name][i].version)}

Greatest(name, spec) ==
    {i \in Admitted(name, spec) :
        \A k \in Admitted(name, spec) :
            ~VersionLess(cpProviders[name][i].version,
                         cpProviders[name][k].version)}

EarliestBound(name, spec) ==
    CHOOSE i \in Greatest(name, spec) :
        \A k \in Greatest(name, spec) :
            cpProviders[name][i].order <= cpProviders[name][k].order

\* C18: for every query form get returns none when no bound provider
\* satisfies the query, and otherwise the provider that was bound first among
\* the satisfying providers of the greatest version.
C18_GetGreatestEarliestBound ==
    cpCall.op = "get" =>
        IF Admitted(cpCall.name, cpCall.spec) = {}
        THEN ~cpCall.found
        ELSE /\ cpCall.found
             /\ cpCall.obj =
                   cpProviders[cpCall.name]
                              [EarliestBound(cpCall.name, cpCall.spec)].obj

\* The list of a name is in ascending version order, providers of equal
\* version in the order of their bind calls.
InVersionThenInsertionOrder(list) ==
    \A i, j \in DOMAIN list :
        i < j =>
            \/ VersionLess(list[i].version, list[j].version)
            \/ /\ VersionEq(list[i].version, list[j].version)
               /\ list[i].order < list[j].order

\* C19: every bind call succeeds, two providers bound under one name and one
\* version included, and after it the list of each name is in ascending
\* version order with equal versions in insertion order.
C19_BindKeepsVersionOrder ==
    /\ cpCall.op = "bind" => ~cpCall.raised
    /\ \A name \in CapNames : InVersionThenInsertionOrder(cpProviders[name])

\* The requirement graph: n depends on m when m is another module and the
\* registered provider of a capability n requires.
Requires(manifests, order, n, m) ==
    /\ m # n
    /\ \E cap \in manifests[n].requires : ProvidesMap(manifests, order, cap) = m

\* The graph has a cycle: a set of modules each of which depends on one of
\* the set.
HasCycle(manifests, order) ==
    \E group \in SUBSET Modules :
        /\ group # {}
        /\ \A n \in group : \E m \in group : Requires(manifests, order, n, m)

\* C20: whenever load_all orders the discovered modules, the ordering fails
\* with the circular-dependency error exactly when the requirement graph has
\* a cycle, and otherwise returns every module exactly once.
C20_CircularOnlyOnCycle ==
    [][\A listing \in Permutations3 :
          LoadAll(listing) =>
              LET result == DependencyOrder(listing) IN
              IF HasCycle(ldManifests, listing)
              THEN result = CircularDependency
              ELSE /\ result # CircularDependency
                   /\ Len(result) = Cardinality(Modules)
                   /\ SeqRange(result) = Modules]_vars

\* C21: when an on_disable hook raises during disable_all, every module that
\* was enabled at the call and defines on_disable still has it invoked, the
\* ones that come after the raising module in the sequence included.
C21_DisableContinuesPastError ==
    ldCall.op = "disable_all" /\ ldCall.raised =>
        \A i \in DOMAIN ReverseOfActual :
            \E k \in DOMAIN DisableLog : DisableLog[k] = ReverseOfActual[i]

\* C22: a patch whose merged settings fail validation makes patch_config
\* raise the validation error and leaves the persisted config, the
\* scheduler's cached config, its registered jobs and next_runs as they were.
C22_FailedPatchChangesNothing ==
    [][\A patch \in Patches :
           PatchConfig(patch) /\ ~Validates(MergeDict(cfStored, patch)) =>
               /\ cfCall'.error = "ValidationError"
               /\ UNCHANGED <<cfStored, cfCached, cfJobs, cfNextRuns, cfRunning>>]_vars

\* A running scheduler with jobs whose last call was a rejected patch, the
\* settings being other than the defaults.
C22_Witness ==
    /\ cfCall.op = "patch_config"
    /\ cfCall.error = "ValidationError"
    /\ cfRunning
    /\ cfNextRuns # {}
    /\ cfStored # DefaultConfig
    /\ cfStored.appearance.theme = "neutral"

\* A well-formed "HH:MM": two digits, a colon, two digits, a time of day.
WellFormedClock(text) ==
    /\ Len(text) = 5
    /\ text[3] = ":"
    /\ IsInt(SubSeq(text, 1, 2)) /\ IsInt(SubSeq(text, 4, 5))
    /\ IntOf(SubSeq(text, 1, 2)) <= 23
    /\ IntOf(SubSeq(text, 4, 5)) <= 59

\* A well-formed "DOW HH:MM".
WellFormedWeekly(text) ==
    /\ Len(text) = 9
    /\ SubSeq(text, 1, 3) \in Weekdays
    /\ text[4] = " "
    /\ WellFormedClock(SubSeq(text, 5, 9))

\* The jobs a config enables.
EnabledJobs(cfg) ==
    {job \in JobIds :
        \/ job = "priority_poll" /\ cfg.schedule.priority_poll_minutes > 0
        \/ job = "standard_poll" /\ cfg.schedule.standard_poll_hours > 0
        \/ job = "digest_daily" /\ WellFormedClock(cfg.schedule.digest_daily)
        \/ job = "digest_weekly" /\ WellFormedWeekly(cfg.schedule.digest_weekly)}

\* C23: once start() or refresh_config (alone or at the end of patch_config)
\* has returned on a running scheduler, next_runs lists exactly the jobs the
\* current config enables.
C23_NextRunsAreEnabledJobs ==
    /\ cfCall.op \in {"start", "refresh_config", "patch_config"}
    /\ ~cfCall.raised
    /\ cfRunning
    => cfNextRuns = EnabledJobs(cfCached)

\* C24: whenever the scheduler is not running, next_runs is empty and no job
\* is registered; refresh_config on a scheduler that is not running only
\* replaces the cached config, and a start() that follows schedules the jobs
\* of the cached config.
C24_StoppedHasNoJobs ==
    /\ [](~cfRunning => cfNextRuns = {} /\ cfJobs = {})
    /\ [][\A cfg \in GivenConfigs :
              ~cfRunning /\ RefreshWith(cfg) =>
                  /\ cfCached' = cfg
                  /\ UNCHANGED <<cfStored, cfRunning, cfScheduler, cfJobs,
                                 cfNextRuns>>]_vars
    /\ [][~cfRunning /\ StartService /\ ~cfCall'.raised =>
              cfRunning' /\ cfNextRuns' = EnabledJobs(cfCached)]_vars

\* A stopped scheduler with an execution of the old scheduler still in
\* flight, refreshed with a config other than the stored one.
C24_Witness ==
    /\ ~cfRunning
    /\ cfCall.op = "refresh_config"
    /\ cfCached # cfStored
    /\ cfInFlight # {}
    /\ cfStopEvent

\* C25: a snapshot returned by describe() never reports running = false
\* together with a non-empty next_runs, and its last_poll and
\* last_poll_reason are those of one recorded poll.
C25_SnapshotConsistent ==
    cfSnap.pc = "done" =>
        /\ ~(~cfSnap.running /\ cfSnap.next_runs # {})
        /\ cfSnap.last_poll = NoPoll \/ cfSnap.last_poll \in cfPolls

\* The executions of a job the running scheduler has in flight: the tasks of
\* its loop that have not reported their end.
InFlightOf(j) ==
    {t \in 1..MaxClock :
        /\ psPasses[t].job = j
        /\ psPasses[t].pc \notin {"none", "done"}
        /\ psPasses[t].loop = SchedLoop(scAlive)}

\* C26: a job never has more than one execution in flight, and the scheduler
\* starts an execution of a job only when none of that job is in flight.
C26_OneExecutionPerJob ==
    /\ [](\A i \in DOMAIN PollJobs : Cardinality(InFlightOf(PollJobs[i])) <= 1)
    /\ [][\A i \in DOMAIN PollJobs :
              JobFire(PollJobs[i]) => InFlightOf(PollJobs[i]) = {}]_vars

\* The second execution of a job is in flight while the job is registered
\* with the running scheduler, the first one having reported its end.
C26_Witness ==
    /\ psPasses[1] = DonePass
    /\ psPasses[2].job = "priority_poll"
    /\ psPasses[2].pc = "modules"
    /\ InFlightOf("priority_poll") = {2}
    /\ "priority_poll" \in scJobs
    /\ scRunning

DeliveredBy ==
    {ch \in {"discord", "email"} :
        /\ dgCall.signals # {}
        /\ \/ ch = "discord" /\ Strip(dgCall.webhook) # <<>> /\ dgCall.post = "ok"
           \/ ch = "email" /\ Strip(dgCall.email_to) # <<>> /\ dgCall.send = "ok"}

\* C28: run_digest adds a digest row, with the full body and sent_at =
\* triggered_at, exactly when a configured channel delivered the digest; with
\* no signal in the window it sends and adds nothing; preview sends and adds
\* nothing.
C28_DigestRowIffDelivered ==
    [][/\ dgCall'.op = "run_digest" =>
              IF DeliveredBy' # {}
              THEN dgDigests' = Append(dgDigests,
                                       [sent_at |-> dgCall'.at, type |-> dgCall'.type,
                                        body_markdown |-> dgCall'.body])
              ELSE dgDigests' = dgDigests
       /\ dgCall'.op = "run_digest" /\ dgCall'.signals = {} =>
              dgCall'.posted = <<>> /\ dgCall'.mailed = <<>>
       /\ dgCall'.op = "preview" =>
              /\ dgDigests' = dgDigests
              /\ dgCall'.posted = <<>> /\ dgCall'.mailed = <<>>]_vars

\* The text holds the word, whatever the case of its letters.
Mentions(text, word) ==
    \E i \in 1..(Len(text) - Len(word) + 1) :
        SubSeq(Lower(text), i, i + Len(word) - 1) = word

\* C29: the signal _normalize_item makes has priority >= 85 when its title
\* contains "hotfix" or "critical", >= 80 when it is of the LIVE channel and
\* >= 50 when it is of the PTU channel.
C29_NormalizedItemIsScored ==
    pnCall.op = "_normalize_item" =>
        /\ \/ Mentions(pnCall.signal.title, <<"h", "o", "t", "f", "i", "x">>)
           \/ Mentions(pnCall.signal.title,
                       <<"c", "r", "i", "t", "i", "c", "a", "l">>)
           => pnCall.signal.priority >= 85
        /\ pnCall.channel = <<"L", "I", "V", "E">> => pnCall.signal.priority >= 80
        /\ pnCall.channel = <<"P", "T", "U">> => pnCall.signal.priority >= 50

\* C30: unbind(name@v, p) removes from the list of name the entries of
\* version v whose provider is the object p itself and nothing else: the
\* other entries keep their order, the other names their lists.
C30_UnbindRemovesByIdentity ==
    [][\A name \in CapNames, ver \in TwinReleases, provider \in TwinObjects :
           Unbind(name, ver, provider) =>
               LET Stays(p) == ~(VersionEq(p.version, ver) /\ p.obj = provider)
               IN cpProviders' =
                      [cpProviders EXCEPT ![name] = SelectSeq(@, Stays)]]_vars

\* The delivery in progress can take a step: a handler of it returns, or
\* the publish a handler made goes on, or publish returns.
DeliveryStep ==
    \/ PublishCall(FALSE)
    \/ PublishReturn
    \/ InnerCall
    \/ InnerReturn

\* C31: the handlers a publish calls are those of the copy it took of the
\* topic's list, in that order, whatever is subscribed, unsubscribed or
\* published on the bus by its handlers or by another thread while it
\* delivers; this holds of a publish made by a handler too. While handlers
\* run the lock is free, so that no thread waits for it, and the delivery is
\* never left without a next step.
C31_DeliveryKeepsItsSnapshot ==
    /\ ebPub.pc = "deliver" =>
          /\ ebLock = "-"
          /\ ENABLED DeliveryStep
          /\ Len(ebPub.calls) = ebPub.idx - 1
          /\ ebPub.idx <= Len(ebPub.subscribed) + 1
          /\ \A k \in DOMAIN ebPub.calls :
                ebPub.calls[k].handler = ebPub.subscribed[k]
    /\ ebPub.pc = "done" =>
          /\ Len(ebPub.calls) = Len(ebPub.subscribed)
          /\ \A k \in DOMAIN ebPub.calls :
                ebPub.calls[k].handler = ebPub.subscribed[k]
    /\ ebInner.pc = "deliver" =>
          /\ ebInner.idx <= Len(ebInner.handlers) + 1
          /\ ebInner.calls = SubSeq(ebInner.handlers, 1, ebInner.idx - 1)
    /\ ebInner.pc = "done" => ebInner.calls = ebInner.handlers

\* The second of two handlers is being called; the first was called, then
\* every handler of the topic was unsubscribed and another one subscribed,
\* and the handler now running has published on the topic, which reached
\* the one handler subscribed by then and returned.
C31_Witness ==
    /\ ebPub.pc = "deliver"
    /\ ebPub.idx = 2
    /\ Len(ebPub.subscribed) = 2
    /\ Len(ebPub.calls) = 1
    /\ Len(ebSubs[ebPub.topic]) = 1
    /\ ebSubs[ebPub.topic][1] # ebPub.subscribed[2]
    /\ ebInner.pc = "done"
    /\ ebInner.topic = ebPub.topic
    /\ ebInner.calls = ebSubs[ebPub.topic]

\* The modules other than n that provide a capability.
OtherProviders(n, cap) ==
    {p \in Modules \ {n} : cap \in ldManifests[p].provides}

\* The modules whose on_enable the last call invoked.
EnableLog ==
    {ldHookLog[i][2] : i \in {j \in DOMAIN ldHookLog : ldHookLog[j][1] = "on_enable"}}

\* C32 as stated: when the on_load of a module runs, and when its on_enable
\* runs, every capability it requires is bound to every other discovered
\* module that provides it.
C32_EveryProviderBoundAtHooks ==
    /\ \A i \in DOMAIN ldLoad.hooks :
          \A cap \in ldManifests[ldLoad.hooks[i].name].requires :
              \A p \in OtherProviders(ldLoad.hooks[i].name, cap) :
                  <<cap, p>> \in ldLoad.hooks[i].bound
    /\ \A n \in EnableLog :
          \A cap \in ldManifests[n].requires :
              \A p \in OtherProviders(n, cap) : <<cap, p>> \in ldLoad.bound

\* C32, amended: when the on_load of a module runs, every capability it
\* requires whose provider in provides_map (the provider listed last) is
\* another module is bound to that module; when an on_enable runs, every
\* capability the module requires is bound to every other module that
\* provides it.
C32_RegisteredProviderBoundAtLoad ==
    /\ \A i \in DOMAIN ldLoad.hooks :
          \A cap \in ldManifests[ldLoad.hooks[i].name].requires :
              ldLoad.registered[cap] \notin {NoModule, ldLoad.hooks[i].name} =>
                  <<cap, ldLoad.registered[cap]>> \in ldLoad.hooks[i].bound
    /\ \A n \in EnableLog :
          \A cap \in ldManifests[n].requires :
              \A p \in OtherProviders(n, cap) : <<cap, p>> \in ldLoad.bound

\* load_all has loaded the three modules: a module whose name sorts before
\* its provider's had on_load called after the provider was bound, and the
\* first on_load found the registry empty.
C32_Witness ==
    /\ Len(ldLoad.hooks) = 3
    /\ ldLoad.hooks[1].bound = {}
    /\ \E i \in DOMAIN ldLoad.hooks :
          \E cap \in ldManifests[ldLoad.hooks[i].name].requires :
              /\ ldLoad.registered[cap] \notin {NoModule, ldLoad.hooks[i].name}
              /\ NameRank(ldLoad.hooks[i].name) < NameRank(ldLoad.registered[cap])
              /\ <<cap, ldLoad.registered[cap]>> \in ldLoad.hooks[i].bound

\* C33 as stated: a caller that is inside start(), stop() or refresh_config()
\* and holds the scheduler lock while the background loop cancels or adds
\* jobs for it returns, under every interleaving with the jobs that finish
\* on the loop.
C33_LockHoldersReturn ==
    \A c \in Callers :
        clPc[c] \in {"add_job", "add_wait", "stop_wait", "refresh_wait"}
            ~> clPc[c] = "idle"

\* start() returned, stop() returned and start() was called again: the last
\* three calls of the runtime.
Restarted ==
    /\ Len(rtHistory) >= 3
    /\ LET k == Len(rtHistory) IN
       /\ rtHistory[k - 2] = [op |-> "start", raised |-> FALSE]
       /\ rtHistory[k - 1] = [op |-> "stop", raised |-> FALSE]
       /\ rtHistory[k].op = "start"

\* The object registry.get(name) returns for a bare name.
Got(cap) ==
    GetProvider(rtProviders[cap],
                [kind |-> "bare", ver |-> <<>>, clauses |-> <<>>])

\* C34 as stated: start(); stop(); start() completes without error; after it
\* every discovered module is enabled, enable_order is the dependency order
\* of the modules, and registry.get of each provided capability returns an
\* instance the latest start loaded.
C34_RestartCompletes ==
    Restarted =>
        /\ ~rtHistory[Len(rtHistory)].raised
        /\ rtStarted
        /\ ldEnabled = Modules
        /\ ldEnableOrder = DependencyOrder(ldModules)
        /\ \A cap \in Caps :
              (\E n \in Modules : cap \in ldManifests[n].provides) =>
                  /\ Got(cap) # <<>>
                  /\ \E n \in Modules :
                        Got(cap)[1].obj = Instance(n, Len(rtHistory))

\* C35 as stated: after disable_all returns, no module state has
\* enabled = true and enable_order is empty, whether or not the entry class
\* of a module defines on_disable.
C35_DisableAllDisablesAll ==
    ldCall = [op |-> "disable_all", raised |-> FALSE] =>
        /\ ldEnabled = {}
        /\ ldEnableOrder = <<>>

\* C36 as stated: a load that runs concurrently with a delete of the same
\* key returns the stored value or the default; it never fails, however the
\* existence check, the open and the removal interleave.
C36_LoadSurvivesDelete ==
    \A p \in KVProcs :
        kvPc[p] = "load_done" =>
            /\ kvResult[p] # FileNotFoundError
            /\ kvResult[p] \in KVValues \cup {KVDefault}

\* A round of the dispatch loop ended in this step with no channel having
\* delivered the candidate: every configured channel raised, or none is
\* configured.
NothingDelivered ==
    /\ nwRun.pc = "dispatch"
    /\ nwRun.candidates # <<>>
    /\ nwRun'.candidates = Tail(nwRun.candidates)
    /\ DeliveredChannels(nwRun'.outcome) = <<>>

\* C37 as stated: a candidate that no channel delivered gets no alert row and
\* is not counted in the alerts number, and it is a candidate of the next
\* collection.
C37_UndeliveredIsRetried ==
    [][NothingDelivered =>
          /\ nwAlerts' = nwAlerts
          /\ nwRun'.alerts = nwRun.alerts
          /\ Head(nwRun.candidates) \in SeqRange(CollectCandidates)']_vars

\* The call that ended in this step is a run_digest with signals in the
\* window, Discord as the only configured channel and a webhook that answered
\* with an error status.
DiscordRejected ==
    /\ dgCall'.op = "run_digest"
    /\ dgCall'.at = dgRuns'
    /\ dgRuns' # dgRuns
    /\ dgCall'.signals # {}
    /\ Strip(dgCall'.webhook) # <<>>
    /\ Strip(dgCall'.email_to) = <<>>
    /\ dgCall'.post = "error_status"

\* C38 as stated: with Discord as the only configured channel and a non-2xx
\* response of the webhook, run_digest records an error row, reports
\* sent = false and persists no digest row.
C38_ErrorStatusIsChannelFailure ==
    [][DiscordRejected =>
          /\ dgErrors' = dgErrors + 1
          /\ ~dgCall'.sent
          /\ dgDigests' = dgDigests]_vars

\* C39 as stated: last_digests only ever has the keys daily and weekly;
\* a trigger_digest with an unsupported type fails as a bad argument and
\* sends nothing.
C39_LastDigestsKeys ==
    /\ \A type \in TriggerTypes :
          dgLastDigests[type] # 0 => type \in DigestTypes
    /\ dgCall.type \notin DigestTypes \cup {"-"} =>
          /\ dgCall.raised
          /\ dgCall.posted = <<>>
          /\ dgCall.mailed = <<>>

\* How often a handler is in a list.
Occurrences(list, h) == Cardinality({i \in DOMAIN list : list[i] = h})

\* The subscriptions of a handler to a topic whose callback was never called.
Unreleased(topic, h) ==
    {k \in DOMAIN ebCallbacks :
        /\ ebCallbacks[k].topic = topic
        /\ ebCallbacks[k].handler = h
        /\ ~ebCallbacks[k].called}

\* C40 as stated: however often the callbacks are called, each removes at
\* most the subscription it was returned for: every subscription whose own
\* callback was never called is still in the list of its topic.
C40_ReleaseRemovesOnlyItsOwn ==
    \A topic \in Topics, h \in Handlers :
        Occurrences(ebSubs[topic], h) >= Cardinality(Unreleased(topic, h))

=============================================================================
